---------------------------- MODULE Spec2Model ----------------------------
(***************************************************************************)
(* A model of VPNManager (MagnaXSoftware/VPNManager):                      *)
(*   - pkg/wireguard: the configuration codec (Config.Export / Peer.Export,*)
(*     ParseConfig / Config.UnmarshalReader / parsePeer) and the peer      *)
(*     mutators (AddPeer, RemovePeer, EnablePeer, DisablePeer);            *)
(*   - pkg/pivpn: the client registry codec and the Vpn orchestrator       *)
(*     (LoadVpnWithLocations, AddClient, RemoveClient, EnableClient,       *)
(*     DisableClient, SyncClients, SyncTunnel, SyncPihole).                *)
(*                                                                         *)
(* Text is modelled as a sequence of lines, a line as a sequence of atoms. *)
(* An atom is a fragment of a line that the parser never splits: one `#`   *)
(* character, the fragment `[disabled] `, one blank, a section header, the *)
(* ` begin <name> ` / ` end <name> ` part of a name marker, or a           *)
(* `Key = value` fragment.  strings.Cut, strings.HasPrefix,                *)
(* strings.TrimSpace and the regular expressions of the parser are         *)
(* operators on these sequences.                                           *)
(***************************************************************************)
EXTENDS Integers, Sequences, FiniteSets, TLC

(***************************************************************************)
(* Atoms.  Every atom has the same fields so that lines can be compared.   *)
(***************************************************************************)
Atom(t) == [t |-> t, k |-> "", s |-> "", n |-> 0, l |-> <<>>]

Hash == Atom("#")
Dis == Atom("[disabled] ")
Sp == Atom(" ")
SecInterface == Atom("[Interface]")
SecPeer == Atom("[Peer]")
BeginAtom(name) == [Atom(" begin ") EXCEPT !.s = name]
EndAtom(name) == [Atom(" end ") EXCEPT !.s = name]
KV(key, s, n, l) == [t |-> "kv", k |-> key, s |-> s, n |-> n, l |-> l]
\* a content fragment without an equals sign
Junk == Atom("junk")

\* an element of a comma separated list: a prefix a/b, a bare address a
\* (b = -1), or a name s that is no address
Elem(a, b, s) == [a |-> a, b |-> b, s |-> s]

(***************************************************************************)
(* Keys.  A key is a number, 0 the all-zero key.  The text of a key value *)
(* is the pair (s, n): s = "b64" for well-formed base64 of 32 bytes, n the *)
(* key it decodes to.  Key.String() always writes s = "b64".               *)
(***************************************************************************)
ZeroKey == 0

IsZero(k) == k = ZeroKey

\* curve25519.ScalarBaseMult is injective on clamped scalars and never
\* yields the all-zero key
Public(k) == 2 * k + 1

ParseKeyBase64(s, n) ==
    IF s # "b64" THEN [err |-> "Invalid key", key |-> ZeroKey]
    ELSE [err |-> "", key |-> n]

(***************************************************************************)
(* Endpoint                                                                *)
(***************************************************************************)
EmptyEndpoint == [Host |-> "", Port |-> 0]

EndpointIsEmpty(e) == e.Host = ""

(***************************************************************************)
(* wireguard.Config, wireguard.Interface, wireguard.Peer                   *)
(***************************************************************************)
EmptyInterface ==
    [PrivateKey |-> ZeroKey, Addresses |-> <<>>, ListenPort |-> 0, MTU |-> 0,
     DNS |-> <<>>, DNSSearch |-> <<>>, PreUp |-> "", PostUp |-> "",
     PreDown |-> "", PostDown |-> "", TableOff |-> FALSE]

EmptyPeer ==
    [Name |-> "", Disabled |-> FALSE, PublicKey |-> ZeroKey,
     PresharedKey |-> ZeroKey, AllowedIPs |-> <<>>,
     Endpoint |-> EmptyEndpoint, PersistentKeepalive |-> 0]

EmptyConfig(name) == [Name |-> name, Interface |-> EmptyInterface, Peers |-> <<>>]

(***************************************************************************)
(* Peer.Export: the lines of p.Export().  Every line is written after a    *)
(* call of insertDisabledPrefix.                                           *)
(***************************************************************************)
\* a prefix that lacks the `[disabled] ` part
insertHashOnly(p) == IF p.Disabled THEN <<Hash>> ELSE <<>>

insertDisabledPrefix(p) == IF p.Disabled THEN <<Hash, Dis>> ELSE <<>>

PrefixList(ps) == [i \in 1..Len(ps) |-> Elem(ps[i].addr, ps[i].bits, "")]

PeerExport(p) ==
    LET pre == insertDisabledPrefix(p) IN
    (IF p.Name # ""
        THEN << pre \o <<Hash, Hash, Hash, BeginAtom(p.Name), Hash, Hash, Hash>> >>
        ELSE <<>>)
    \o << pre \o <<SecPeer>> >>
    \o << pre \o << KV("publickey", "b64", p.PublicKey, <<>>) >> >>
    \o (IF ~IsZero(p.PresharedKey)
        THEN << pre \o << KV("presharedkey", "b64", p.PresharedKey, <<>>) >> >>
        ELSE <<>>)
    \o (IF Len(p.AllowedIPs) > 0
        THEN << pre \o << KV("allowedips", "", 0, PrefixList(p.AllowedIPs)) >> >>
        ELSE <<>>)
    \o (IF ~EndpointIsEmpty(p.Endpoint)
        THEN << pre \o << KV("endpoint", p.Endpoint.Host, p.Endpoint.Port, <<>>) >> >>
        ELSE <<>>)
    \o (IF p.PersistentKeepalive > 0
        THEN << pre \o << KV("persistentkeepalive", "dec", p.PersistentKeepalive, <<>>) >> >>
        ELSE <<>>)
    \o (IF p.Name # ""
        THEN << pre \o <<Hash, Hash, Hash, EndAtom(p.Name), Hash, Hash, Hash>> >>
        ELSE <<>>)

\* p.Export() ends with a newline exactly when the peer has no name (the
\* end marker is written without one); Config.Export then writes one more
\* newline, which ends the end marker line of a named peer and makes an
\* empty line after an unnamed peer.
PeerBlock(p) == PeerExport(p) \o (IF p.Name = "" THEN << <<>> >> ELSE <<>>)

InterfaceExport(i) ==
    << <<SecInterface>> >>
    \o << << KV("privatekey", "b64", i.PrivateKey, <<>>) >> >>
    \o (IF i.ListenPort > 0
        THEN << << KV("listenport", "dec", i.ListenPort, <<>>) >> >> ELSE <<>>)
    \o (IF Len(i.Addresses) > 0
        THEN << << KV("address", "", 0, PrefixList(i.Addresses)) >> >> ELSE <<>>)
    \o (IF Len(i.DNS) + Len(i.DNSSearch) > 0
        THEN << << KV("dns", "", 0,
                      [j \in 1..Len(i.DNS) |-> Elem(i.DNS[j], -1, "")]
                      \o [j \in 1..Len(i.DNSSearch) |-> Elem(0, -1, i.DNSSearch[j])]) >> >>
        ELSE <<>>)
    \o (IF i.MTU > 0 THEN << << KV("mtu", "dec", i.MTU, <<>>) >> >> ELSE <<>>)
    \o (IF i.PreUp # "" THEN << << KV("preup", i.PreUp, 0, <<>>) >> >> ELSE <<>>)
    \o (IF i.PostUp # "" THEN << << KV("postup", i.PostUp, 0, <<>>) >> >> ELSE <<>>)
    \o (IF i.PreDown # "" THEN << << KV("predown", i.PreDown, 0, <<>>) >> >> ELSE <<>>)
    \o (IF i.PostDown # "" THEN << << KV("postdown", i.PostDown, 0, <<>>) >> >> ELSE <<>>)
    \o (IF i.TableOff THEN << << KV("table", "off", 0, <<>>) >> >> ELSE <<>>)

RECURSIVE PeerBlocks(_)
PeerBlocks(ps) ==
    IF ps = <<>> THEN <<>> ELSE PeerBlock(Head(ps)) \o PeerBlocks(Tail(ps))

\* Config.Export
Export(c) == InterfaceExport(c.Interface) \o PeerBlocks(c.Peers)


(***************************************************************************)
(* String helpers of the parser                                            *)
(***************************************************************************)
\* index of the first atom of kind t in line, 0 if there is none
RECURSIVE IndexFrom(_, _, _)
IndexFrom(line, t, i) ==
    IF i > Len(line) THEN 0
    ELSE IF line[i].t = t THEN i
    ELSE IndexFrom(line, t, i + 1)

\* strings.Cut(line, sep): without sep in line, before = line and after = ""
Cut(line, t) ==
    LET i == IndexFrom(line, t, 1) IN
    IF i = 0 THEN [before |-> line, after |-> <<>>, found |-> FALSE]
    ELSE [before |-> SubSeq(line, 1, i - 1),
          after |-> SubSeq(line, i + 1, Len(line)), found |-> TRUE]

RECURSIVE TrimLeft(_)
TrimLeft(line) ==
    IF line # <<>> /\ Head(line) = Sp THEN TrimLeft(Tail(line)) ELSE line

RECURSIVE TrimRight(_)
TrimRight(line) ==
    IF line # <<>> /\ line[Len(line)] = Sp
        THEN TrimRight(SubSeq(line, 1, Len(line) - 1)) ELSE line

TrimSpace(line) == TrimRight(TrimLeft(line))

Digits == {"0", "1", "2", "3", "4", "5", "6", "7", "8", "9"}

Letters ==
    {"a", "b", "c", "d", "e", "f", "g", "h", "i", "j", "k", "l", "m", "n", "o",
     "p", "q", "r", "s", "t", "u", "v", "w", "x", "y", "z",
     "A", "B", "C", "D", "E", "F", "G", "H", "I", "J", "K", "L", "M", "N", "O",
     "P", "Q", "R", "S", "T", "U", "V", "W", "X", "Y", "Z"}

\* the character class [a-zA-Z0-9.@_-]
NameChars == Letters \cup Digits \cup {".", "@", "_", "-"}

Char(s, i) == SubSeq(s, i, i)

\* [a-zA-Z]+
MatchesLetters(s) == Len(s) >= 1 /\ \A i \in 1..Len(s) : Char(s, i) \in Letters

\* [a-zA-Z0-9.@_-]+
MatchesNameChars(s) == Len(s) >= 1 /\ \A i \in 1..Len(s) : Char(s, i) \in NameChars

\* `^##<marker>([a-zA-Z0-9.@_-]+) ###\s*$` on the text after the first `#`
MarkerMatch(la, marker) ==
    /\ Len(la) >= 6
    /\ la[1] = Hash /\ la[2] = Hash
    /\ la[3].t = marker /\ MatchesNameChars(la[3].s)
    /\ la[4] = Hash /\ la[5] = Hash /\ la[6] = Hash
    /\ \A i \in 7..Len(la) : la[i] = Sp

\* beginRegex
beginRegex(la) == MarkerMatch(la, " begin ")

\* endRegex
endRegex(la) == MarkerMatch(la, " end ")

\* beginWithDisabledRegex: `^(\[disabled] #)?## begin ... ###\s*$`
beginWithDisabledRegex(la) ==
    \/ beginRegex(la)
    \/ /\ Len(la) >= 2 /\ la[1] = Dis /\ la[2] = Hash
       /\ beginRegex(SubSeq(la, 3, Len(la)))

\* a content line is `key = value`: one kv atom; anything else has no `=`
HasEquals(line) == Len(line) = 1 /\ line[1].t = "kv"

ValueEmpty(a) == a.s = "" /\ a.n = 0 /\ a.l = <<>>

(***************************************************************************)
(* Value parsers                                                           *)
(***************************************************************************)
\* strconv.Atoi succeeds on decimal text (s = "dec")
parsePort(s, n) ==
    IF s # "dec" THEN [err |-> "Atoi", val |-> 0]
    ELSE IF n < 0 \/ n > 65535 THEN [err |-> "Invalid port", val |-> 0]
    ELSE [err |-> "", val |-> n]

parseMTU(s, n) ==
    IF s # "dec" THEN [err |-> "Atoi", val |-> 0]
    ELSE IF n < 576 \/ n > 65535 THEN [err |-> "Invalid MTU", val |-> 0]
    ELSE [err |-> "", val |-> n]

parsePersistentKeepalive(s, n) ==
    IF s = "off" THEN [err |-> "", val |-> 0]
    ELSE IF s # "dec" THEN [err |-> "Atoi", val |-> 0]
    ELSE IF n < 0 \/ n > 65535
        THEN [err |-> "Invalid persistent keepalive", val |-> 0]
    ELSE [err |-> "", val |-> n]

parseTableOff(s, n) ==
    IF s = "off" THEN [err |-> "", val |-> TRUE]
    ELSE IF s = "auto" \/ s = "main" THEN [err |-> "", val |-> FALSE]
    ELSE IF s = "dec" /\ n >= 0 THEN [err |-> "", val |-> FALSE]
    ELSE [err |-> "ParseUint", val |-> FALSE]

\* host:port; the text of an endpoint is the pair (host, port), port -1
\* when the text has no colon
parseEndpoint(s, n) ==
    IF n = -1 THEN [err |-> "Missing port from endpoint", val |-> EmptyEndpoint]
    ELSE IF s = "" THEN [err |-> "Invalid endpoint host", val |-> EmptyEndpoint]
    ELSE IF n < 0 \/ n > 65535 THEN [err |-> "Invalid port", val |-> EmptyEndpoint]
    ELSE [err |-> "", val |-> [Host |-> s, Port |-> n]]

\* splitList: an empty element (b = -2) is "Two commas in a row"
splitList(l) ==
    IF \E i \in 1..Len(l) : l[i].b = -2
        THEN [err |-> "Two commas in a row", val |-> <<>>]
    ELSE [err |-> "", val |-> l]

\* parseIPCidr: a prefix, or a bare address as a host route
parseIPCidr(e) ==
    IF e.s # "" THEN [err |-> "Invalid IP address", val |-> [addr |-> 0, bits |-> 0]]
    ELSE [err |-> "",
          val |-> [addr |-> e.a,
                   bits |-> IF e.b # -1 THEN e.b ELSE IF e.a < 0 THEN 128 ELSE 32]]

\* the loop `for _, address := range addresses` over parseIPCidr
parsePrefixes(l) ==
    LET sl == splitList(l) IN
    IF sl.err # "" THEN [err |-> sl.err, val |-> <<>>]
    ELSE IF \E i \in 1..Len(l) : parseIPCidr(l[i]).err # ""
        THEN [err |-> "Invalid IP address", val |-> <<>>]
    ELSE [err |-> "", val |-> [i \in 1..Len(l) |-> parseIPCidr(l[i]).val]]

(***************************************************************************)
(* parsePeer: reads a peer block starting at the scanner's current line    *)
(* pos.  Returns the peer and the line the scanner is on at the return.    *)
(***************************************************************************)
PeerField(peer, a) ==
    CASE a.k = "publickey" ->
            LET r == ParseKeyBase64(a.s, a.n) IN
            [err |-> r.err, peer |-> [peer EXCEPT !.PublicKey = r.key]]
      [] a.k = "presharedkey" ->
            LET r == ParseKeyBase64(a.s, a.n) IN
            [err |-> r.err, peer |-> [peer EXCEPT !.PresharedKey = r.key]]
      [] a.k = "allowedips" ->
            LET r == parsePrefixes(a.l) IN
            [err |-> r.err,
             peer |-> [peer EXCEPT !.AllowedIPs = peer.AllowedIPs \o r.val]]
      [] a.k = "persistentkeepalive" ->
            LET r == parsePersistentKeepalive(a.s, a.n) IN
            [err |-> r.err, peer |-> [peer EXCEPT !.PersistentKeepalive = r.val]]
      [] a.k = "endpoint" ->
            LET r == parseEndpoint(a.s, a.n) IN
            [err |-> r.err, peer |-> [peer EXCEPT !.Endpoint = r.val]]
      [] OTHER -> [err |-> "Invalid key for [Peer] section", peer |-> peer]

RECURSIVE parsePeerLoop(_, _, _, _, _)
parsePeerLoop(lines, pos, peer, disabled, seenPeer) ==
    LET raw == lines[pos]
        stripped == IF disabled THEN Cut(raw, "[disabled] ").after ELSE raw
        c == Cut(stripped, "#")
        lineAfter == c.after
        line == TrimSpace(c.before)
        \* `if !scanner.Scan() { break }`
        scan(p, sp) ==
            IF pos + 1 > Len(lines)
                THEN [err |-> "", peer |-> p, pos |-> Len(lines)]
            ELSE parsePeerLoop(lines, pos + 1, p, disabled, sp)
        break == [err |-> "", peer |-> peer, pos |-> pos]
        fail(e) == [err |-> e, peer |-> EmptyPeer, pos |-> pos]
    IN
    IF c.before = <<>> /\ lineAfter # <<>> /\ lineAfter[1] = Dis
        THEN \* reparse the line with the disabled prefix removed
             parsePeerLoop(lines, pos, [peer EXCEPT !.Disabled = TRUE], TRUE, seenPeer)
    ELSE IF beginRegex(lineAfter)
        THEN IF peer.Name # "" THEN fail("Duplicate begin line")
             ELSE scan([peer EXCEPT !.Name = lineAfter[3].s], seenPeer)
    ELSE IF line = <<SecInterface>> THEN break
    ELSE IF line = <<SecPeer>>
        THEN IF seenPeer THEN break ELSE scan(peer, TRUE)
    ELSE IF endRegex(lineAfter) THEN break
    ELSE IF Len(line) = 0 THEN scan(peer, seenPeer)
    ELSE IF ~HasEquals(line) THEN fail("Server key is missing an equals separator")
    ELSE IF ValueEmpty(line[1]) THEN fail("Key must have a value")
    ELSE LET r == PeerField(peer, line[1]) IN
         IF r.err # "" THEN fail(r.err) ELSE scan(r.peer, seenPeer)

parsePeer(lines, pos) == parsePeerLoop(lines, pos, EmptyPeer, FALSE, FALSE)

(***************************************************************************)
(* Config.UnmarshalReader                                                  *)
(***************************************************************************)
\* the list `for _, address := range addresses` of the dns key: an element
\* that parses as an address is a resolver, any other a search domain
DNSAddrs(l) == SelectSeq(l, LAMBDA e : e.s = "")
DNSNames(l) == SelectSeq(l, LAMBDA e : e.s # "")

InterfaceField(i, a) ==
    CASE a.k = "privatekey" ->
            LET r == ParseKeyBase64(a.s, a.n) IN
            [err |-> r.err, iface |-> [i EXCEPT !.PrivateKey = r.key]]
      [] a.k = "listenport" ->
            LET r == parsePort(a.s, a.n) IN
            [err |-> r.err, iface |-> [i EXCEPT !.ListenPort = r.val]]
      [] a.k = "mtu" ->
            LET r == parseMTU(a.s, a.n) IN
            [err |-> r.err, iface |-> [i EXCEPT !.MTU = r.val]]
      [] a.k = "address" ->
            LET r == parsePrefixes(a.l) IN
            [err |-> r.err, iface |-> [i EXCEPT !.Addresses = i.Addresses \o r.val]]
      [] a.k = "dns" ->
            LET r == splitList(a.l) IN
            [err |-> r.err,
             iface |-> [i EXCEPT
                 !.DNS = i.DNS \o [j \in 1..Len(DNSAddrs(r.val)) |-> DNSAddrs(r.val)[j].a],
                 !.DNSSearch = i.DNSSearch
                     \o [j \in 1..Len(DNSNames(r.val)) |-> DNSNames(r.val)[j].s]]]
      [] a.k = "preup" -> [err |-> "", iface |-> [i EXCEPT !.PreUp = a.s]]
      [] a.k = "postup" -> [err |-> "", iface |-> [i EXCEPT !.PostUp = a.s]]
      [] a.k = "predown" -> [err |-> "", iface |-> [i EXCEPT !.PreDown = a.s]]
      [] a.k = "postdown" -> [err |-> "", iface |-> [i EXCEPT !.PostDown = a.s]]
      [] a.k = "table" ->
            LET r == parseTableOff(a.s, a.n) IN
            [err |-> r.err, iface |-> [i EXCEPT !.TableOff = r.val]]
      [] OTHER -> [err |-> "Invalid key for [Interface] section", iface |-> i]

\* c.maybeAddPeer(p)
maybeAddPeer(c, p) == [c EXCEPT !.Peers = Append(c.Peers, p)]

\* the checks after the loop.  The `peer` of UnmarshalReader's own scope is
\* never assigned (the loop declares its own `peer`), so the
\* maybeAddPeer(peer) of lines 292 and 388 add nothing.
UnmarshalFinish(c, sawPrivateKey) ==
    IF ~sawPrivateKey
        THEN [err |-> "An interface must have a private key", conf |-> c]
    ELSE IF \E i \in 1..Len(c.Peers) : IsZero(c.Peers[i].PublicKey)
        THEN [err |-> "All peers must have public keys", conf |-> c]
    ELSE [err |-> "", conf |-> c]

\* pos is the line the scanner is on (0 before the first Scan)
RECURSIVE UnmarshalLoop(_, _, _, _, _)
UnmarshalLoop(lines, pos, state, c, sawPrivateKey) ==
    IF pos + 1 > Len(lines) THEN UnmarshalFinish(c, sawPrivateKey)
    ELSE
    LET cur == pos + 1
        cut == Cut(lines[cur], "#")
        lineAfter == cut.after
        line == TrimSpace(cut.before)
        fail(e) == [err |-> e, conf |-> c]
    IN
    IF line = <<SecInterface>>
        THEN UnmarshalLoop(lines, cur, "inInterface", c, sawPrivateKey)
    ELSE IF line = <<SecPeer>> \/ beginWithDisabledRegex(lineAfter)
        THEN LET r == parsePeer(lines, cur) IN
             IF r.err # "" THEN fail(r.err)
             ELSE UnmarshalLoop(lines, r.pos, "inPeer", maybeAddPeer(c, r.peer),
                                sawPrivateKey)
    ELSE IF Len(line) = 0 THEN UnmarshalLoop(lines, cur, state, c, sawPrivateKey)
    ELSE IF state = "notInSection" THEN fail("line must occur in a section")
    ELSE IF ~HasEquals(line) THEN fail("Server key is missing an equals separator")
    ELSE IF ValueEmpty(line[1]) THEN fail("Key must have a value")
    ELSE IF state = "inInterface"
        THEN LET r == InterfaceField(c.Interface, line[1]) IN
             IF r.err # "" THEN fail(r.err)
             ELSE UnmarshalLoop(lines, cur, state, [c EXCEPT !.Interface = r.iface],
                                sawPrivateKey \/ line[1].k = "privatekey")
    ELSE UnmarshalLoop(lines, cur, state, c, sawPrivateKey)

\* ParseConfig(input, name): no Config is returned with an error
ParseConfig(lines, name) ==
    LET r == UnmarshalLoop(lines, 0, "notInSection", EmptyConfig(name), FALSE) IN
    IF r.err # "" THEN [err |-> r.err, conf |-> EmptyConfig("")] ELSE r


(***************************************************************************)
(* Addresses.  An IPv4 address is its unsigned 32-bit integer; addresses   *)
(* of the IPv6 family are negative numbers, -1 is `::`.                    *)
(***************************************************************************)
\* 10.0.0.1, as netip.Addr orders addresses
ServerAddr == 10 * (2 ^ 24) + 1

ipv4All == [addr |-> 0, bits |-> 0]
ipv6All == [addr |-> -1, bits |-> 0]

(***************************************************************************)
(* Peer mutators of a Configuration (by name)                              *)
(***************************************************************************)
\* the `for i, peer := range c.Peers { if peer.Name == name { idx = i } }`
\* loop: the index of the last peer with that name, 0 for idx = -1
RECURSIVE LastIndex(_, _, _)
LastIndex(peers, name, i) ==
    IF i = 0 THEN 0
    ELSE IF peers[i].Name = name THEN i
    ELSE LastIndex(peers, name, i - 1)

FindPeer(c, name) == LastIndex(c.Peers, name, Len(c.Peers))

\* a DisablePeer that does not stop at the peer it was given
DisablePeerEvery(c, name) ==
    IF FindPeer(c, name) = 0 THEN [err |-> "peer not found", conf |-> c]
    ELSE [err |-> "",
          conf |-> [c EXCEPT !.Peers =
                      [i \in 1..Len(c.Peers) |-> [c.Peers[i] EXCEPT !.Disabled = TRUE]]]]

DisablePeer(c, name) ==
    LET idx == FindPeer(c, name) IN
    IF idx = 0 THEN [err |-> "peer not found", conf |-> c]
    ELSE [err |-> "", conf |-> [c EXCEPT !.Peers[idx].Disabled = TRUE]]

EnablePeer(c, name) ==
    LET idx == FindPeer(c, name) IN
    IF idx = 0 THEN [err |-> "peer not found", conf |-> c]
    ELSE [err |-> "", conf |-> [c EXCEPT !.Peers[idx].Disabled = FALSE]]

RemoveAt(seq, idx) == SubSeq(seq, 1, idx - 1) \o SubSeq(seq, idx + 1, Len(seq))

\* a RemovePeer that drops the last peer when it finds none of that name
RemovePeerOrLast(c, name) ==
    LET idx == FindPeer(c, name) IN
    IF Len(c.Peers) = 0 THEN [err |-> "peer not found", conf |-> c]
    ELSE IF idx = 0
        THEN [err |-> "peer not found",
              conf |-> [c EXCEPT !.Peers = RemoveAt(c.Peers, Len(c.Peers))]]
    ELSE [err |-> "", conf |-> [c EXCEPT !.Peers = RemoveAt(c.Peers, idx)]]

RemovePeer(c, name) ==
    LET idx == FindPeer(c, name) IN
    IF idx = 0 THEN [err |-> "peer not found", conf |-> c]
    ELSE [err |-> "", conf |-> [c EXCEPT !.Peers = RemoveAt(c.Peers, idx)]]

\* an AddPeer without the check of the names in the list
AddPeerUnchecked(c, peer) ==
    IF peer.Name = "" THEN [err |-> "peer must have a name", conf |-> c]
    ELSE [err |-> "", conf |-> [c EXCEPT !.Peers = Append(c.Peers, peer)]]

AddPeer(c, peer) ==
    IF peer.Name = "" THEN [err |-> "peer must have a name", conf |-> c]
    ELSE IF \E i \in 1..Len(c.Peers) : c.Peers[i].Name = peer.Name
        THEN [err |-> "peer is already registered", conf |-> c]
    ELSE [err |-> "", conf |-> [c EXCEPT !.Peers = Append(c.Peers, peer)]]

(***************************************************************************)
(* The client registry (clients.txt).  A line of the file is the record of *)
(* its fields as text: the name, the key text (keyS = "b64" for            *)
(* well-formed base64 of 32 bytes, which has 44 characters), the time and  *)
(* the address in decimal (timeS, ipS = "dec"; "zeros" for decimal text    *)
(* with zeros before the number), and the blanks that fill each field:     *)
(* namePad after the name, keyPad, timePad and ipPad before the others.    *)
(* One more blank stands between two fields.  A time is a number of whole  *)
(* seconds, as time.Time.Unix() gives it.                                  *)
(***************************************************************************)
\* the chunks spacesRE.Split makes of a name written with %-15s: one more
\* than its runs of blanks, not counting a run at its end
NameChunks(name) ==
    1 + Cardinality({ i \in 1..(Len(name) - 1) :
                        Char(name, i) = " " /\ Char(name, i + 1) # " " })

\* the characters of n written with %d
RECURSIVE DecLen(_)
DecLen(n) ==
    IF n < 0 THEN 1 + DecLen(0 - n)
    ELSE IF n < 10 THEN 1
    ELSE 1 + DecLen(n \div 10)

\* the blanks fmt writes to fill a field of that width
Pad(width, len) == IF len >= width THEN 0 ELSE width - len

\* a line written with "%s %s %d %d\n": no field is filled
ExportLineUnpadded(info) ==
    [name |-> info.Name, namePad |-> 0,
     keyS |-> "b64", key |-> info.PublicKey, keyPad |-> 0,
     timeS |-> "dec", time |-> info.CreationDate, timePad |-> 0,
     ipS |-> "dec", ip |-> info.IPAddr, ipPad |-> 0]

\* a line written with "%-15s %44s %10d %10d\n"
ExportLine(info) ==
    [name |-> info.Name, namePad |-> Pad(15, Len(info.Name)),
     keyS |-> "b64", key |-> info.PublicKey, keyPad |-> Pad(44, 44),
     timeS |-> "dec", time |-> info.CreationDate,
     timePad |-> Pad(10, DecLen(info.CreationDate)),
     ipS |-> "dec", ip |-> info.IPAddr, ipPad |-> Pad(10, DecLen(info.IPAddr))]

\* ClientInfoList.Export
ClientInfoListExport(l) == [i \in 1..Len(l) |-> ExportLine(l[i])]

\* spacesRE.Split takes every run of blanks as one separator, so the blanks
\* that fill a field make no chunk
RegLineErr(line) ==
    IF NameChunks(line.name) + 3 # 4 THEN "expected 4 chunks in line"
    ELSE IF ParseKeyBase64(line.keyS, line.key).err # "" THEN "Invalid key"
    ELSE IF line.timeS \notin {"dec", "zeros"} THEN "ParseInt"
    ELSE IF line.ipS \notin {"dec", "zeros"} \/ line.ip < 0 THEN "ParseUint"
    ELSE ""

\* ParseClientList: the first line in error fails the whole list
ParseClientList(lines) ==
    IF \E i \in 1..Len(lines) : RegLineErr(lines[i]) # ""
        THEN [err |-> RegLineErr(lines[CHOOSE i \in 1..Len(lines) :
                          /\ RegLineErr(lines[i]) # ""
                          /\ \A j \in 1..(i - 1) : RegLineErr(lines[j]) = ""]),
              list |-> <<>>]
    ELSE [err |-> "",
          list |-> [i \in 1..Len(lines) |->
                      [Name |-> lines[i].name, PublicKey |-> lines[i].key,
                       CreationDate |-> lines[i].time, IPAddr |-> lines[i].ip]]]

\* ClientInfoList.AsMap panics on a name that occurs twice
AsMapPanics(l) == \E i, j \in 1..Len(l) : i # j /\ l[i].Name = l[j].Name

\* clientMap[name], for a name in the map
MapEntry(l, name) == l[CHOOSE i \in 1..Len(l) : l[i].Name = name]

InMap(l, name) == \E i \in 1..Len(l) : l[i].Name = name

(***************************************************************************)
(* Clients                                                                 *)
(***************************************************************************)
\* Client.ToPeer
ToPeer(c) ==
    [Name |-> c.Name, Disabled |-> FALSE,
     PublicKey |-> Public(c.Interface.PrivateKey),
     PresharedKey |-> c.Peers[1].PresharedKey,
     AllowedIPs |-> <<[addr |-> c.Interface.Addresses[1].addr, bits |-> 32]>>,
     Endpoint |-> EmptyEndpoint, PersistentKeepalive |-> 0]

\* ClientList.ToClientInfoList
ToClientInfoList(cl) ==
    [i \in 1..Len(cl) |->
        [Name |-> cl[i].Name, PublicKey |-> Public(cl[i].Interface.PrivateKey),
         CreationDate |-> cl[i].CreationDate,
         IPAddr |-> cl[i].Interface.Addresses[1].addr]]

\* the wireguard.Config embedded in a Client
ClientConfig(c) == [Name |-> c.Name, Interface |-> c.Interface, Peers |-> c.Peers]

MakeClient(conf, disabled, created) ==
    [Name |-> conf.Name, Interface |-> conf.Interface, Peers |-> conf.Peers,
     Disabled |-> disabled, CreationDate |-> created]

(***************************************************************************)
(* Files.  A file is [exists, lines].                                      *)
(***************************************************************************)
\* no key file
NoKey == -1

NoFile == [exists |-> FALSE, lines |-> <<>>]

File(lines) == [exists |-> TRUE, lines |-> lines]

(***************************************************************************)
(* LoadVpnWithLocations.  result is "ok" (a Vpn is returned), "err" (an    *)
(* error is returned, and no Vpn) or "panic" (the call does not return).   *)
(***************************************************************************)
LoadFail(kind, e) == [result |-> kind, err |-> e, Server |-> EmptyConfig(""), Clients |-> <<>>]

\* the loop over tunnelConf.Peers.  The function literal that reads the
\* per-client file returns the error of os.Open, but the error of ParseConfig
\* is overwritten by the deferred `err = file.Close()`: after a failed parse
\* c is nil and err is nil, and `*c` panics once the name was found in the map.
\* one pass of the loop: the per-client file of the peer as opened, c as
\* ParseConfig returned it
LoadClient(peer, file, c, clients) ==
    IF ~file.exists THEN LoadFail("err", "open: no such file")
    ELSE IF ~InMap(clients, peer.Name)
        THEN LoadFail("err", "client not found in clients.txt")
    ELSE IF c.err # "" THEN LoadFail("panic", "nil pointer dereference")
    ELSE [result |-> "ok", err |-> "", Server |-> EmptyConfig(""),
          Clients |-> << MakeClient(c.conf, peer.Disabled,
                                    MapEntry(clients, peer.Name).CreationDate) >>]

ConfFile(confs, name) == IF name \in DOMAIN confs THEN confs[name] ELSE NoFile

RECURSIVE LoadClients(_, _, _, _, _), LoadNext(_, _, _, _, _, _)
LoadClients(tunnelConf, i, clients, confs, acc) ==
    IF i > Len(tunnelConf.Peers)
        THEN [result |-> "ok", err |-> "", Server |-> tunnelConf, Clients |-> acc]
    ELSE LoadNext(tunnelConf, i, clients, confs, acc,
                  LoadClient(tunnelConf.Peers[i],
                             ConfFile(confs, tunnelConf.Peers[i].Name),
                             ParseConfig(ConfFile(confs, tunnelConf.Peers[i].Name).lines,
                                         tunnelConf.Peers[i].Name),
                             clients))

\* the first pass that fails ends the loop
LoadNext(tunnelConf, i, clients, confs, acc, r) ==
    IF r.result # "ok" THEN r
    ELSE LoadClients(tunnelConf, i + 1, clients, confs, acc \o r.Clients)

\* what follows the two parses in LoadVpnWithLocations
LoadParsed(registry, tunnelConf, clients, confs) ==
    IF tunnelConf.err # "" THEN LoadFail("err", tunnelConf.err)
    ELSE IF ~registry.exists THEN LoadFail("err", "open: no such file")
    ELSE IF clients.err # "" THEN LoadFail("err", clients.err)
    ELSE IF AsMapPanics(clients.list)
        THEN LoadFail("panic", "duplicate name in client list")
    ELSE LoadClients(tunnelConf.conf, 1, clients.list, confs, <<>>)

LoadVpnWithLocations(tunnel, registry, confs) ==
    IF ~tunnel.exists THEN LoadFail("err", "open: no such file")
    ELSE LoadParsed(registry, ParseConfig(tunnel.lines, "wg0"),
                    ParseClientList(registry.lines), confs)

(***************************************************************************)
(* AddClient: the name rules and the address scan                          *)
(***************************************************************************)
\* clientNameRE: ^[a-zA-Z0-9.@_-]{1,15}$
clientNameRE(name) == MatchesNameChars(name) /\ Len(name) <= 15

\* the rule the error message words: the name must contain a digit
clientNameDigitRE(name) == \E i \in 1..Len(name) : Char(name, i) \in Digits

\* clientNameNonDigitRE: ^[a-zA-Z0-9.@_-]*[^0-9][a-zA-Z0-9.@_-]*$
clientNameNonDigitRE(name) ==
    \E i \in 1..Len(name) :
        /\ Char(name, i) \notin Digits
        /\ \A j \in (1..Len(name)) \ {i} : Char(name, j) \in NameChars

NameError(name) ==
    IF ~clientNameRE(name) THEN "invalid client name"
    ELSE IF ~clientNameNonDigitRE(name) THEN "client name must contain at least one digit"
    ELSE IF name = "server" THEN "client name must not match server"
    ELSE ""

Pow2(n) == 2 ^ n

\* a scan that steps over every other address
NextAddrSkipping(ip) == ip + 2

\* netip.Addr.Next
NextAddr(ip) == ip + 1

\* netip.Prefix.Contains, for IPv4
Contains(netblock, ip) ==
    ip \div Pow2(32 - netblock.bits) = netblock.addr \div Pow2(32 - netblock.bits)

\* a scan that does not look at the addresses in use
RECURSIVE ScanAddrBlind(_, _, _)
ScanAddrBlind(ip, ips, netblock) ==
    IF ip \in {} THEN ScanAddrBlind(NextAddr(ip), ips, netblock)
    ELSE IF ~Contains(netblock, ip) THEN 0
    ELSE ip

\* the `for` loop of lines 283-293; 0 when no address is left
RECURSIVE ScanAddr(_, _, _)
ScanAddr(ip, ips, netblock) ==
    IF ip \in ips THEN ScanAddr(NextAddr(ip), ips, netblock)
    ELSE IF ~Contains(netblock, ip) THEN 0
    ELSE ip

\* the address AddClient gives the next client
AllocateAddr(server, clients) ==
    LET netblock == server.Interface.Addresses[1]
        ips == { clients[i].Interface.Addresses[1].addr : i \in 1..Len(clients) }
    IN ScanAddr(NextAddr(netblock.addr), ips, netblock)

\* pivpn.Config as read from setupVars.conf
PivpnDNS == <<ServerAddr>>
PivpnEndpoint == [Host |-> "vpn.example.com", Port |-> 51820]

\* time.Now() of AddClient, in seconds
Now == 1700000100

\* NewKeys(name): the private key and the preshared key drawn for a client.
\* The draws of different names differ.
NameTable == <<"alice", "bob", "carol", "dave">>

NameId(name) ==
    IF \E i \in 1..Len(NameTable) : NameTable[i] = name
        THEN CHOOSE i \in 1..Len(NameTable) : NameTable[i] = name
    ELSE 0

NewKeys(name) ==
    [Name |-> name, PrivateKey |-> 10 * NameId(name) + 12,
     PresharedKey |-> 10 * NameId(name) + 14]

\* the Client literal of AddClient
NewClient(name, keys, ip, server) ==
    [Name |-> name,
     Interface |-> [EmptyInterface EXCEPT
                      !.PrivateKey = keys.PrivateKey,
                      !.Addresses = <<[addr |-> ip, bits |-> server.Interface.Addresses[1].bits]>>,
                      !.DNS = PivpnDNS],
     Peers |-> << [Name |-> "", Disabled |-> FALSE,
                   PublicKey |-> Public(server.Interface.PrivateKey),
                   PresharedKey |-> keys.PresharedKey,
                   AllowedIPs |-> <<ipv4All, ipv6All>>,
                   Endpoint |-> PivpnEndpoint,
                   PersistentKeepalive |-> 25] >>,
     Disabled |-> FALSE,
     CreationDate |-> Now]

\* invalidDNSChars.ReplaceAllLiteralString(name, "-"): every run of
\* characters outside [a-zA-Z0-9-] becomes one "-"
DNSChars == Letters \cup Digits \cup {"-"}

RECURSIVE DNSNameFrom(_, _)
DNSNameFrom(s, i) ==
    IF i > Len(s) THEN ""
    ELSE IF Char(s, i) \in DNSChars THEN Char(s, i) \o DNSNameFrom(s, i + 1)
    ELSE IF i > 1 /\ Char(s, i - 1) \notin DNSChars THEN DNSNameFrom(s, i + 1)
    ELSE "-" \o DNSNameFrom(s, i + 1)

DNSName(c) == DNSNameFrom(c.Name, 1)

\* the text SyncPihole writes: one `<address> <host>.pivpn` line per host
PiholeLines(server, clients) ==
    << [addr |-> server.Interface.Addresses[1].addr, host |-> "server"] >>
    \o [i \in 1..Len(clients) |->
          [addr |-> clients[i].Interface.Addresses[1].addr, host |-> DNSName(clients[i])]]

(***************************************************************************)
(* Bounds and input domains                                                *)
(***************************************************************************)
\* most peers of a configuration given to the codec
MaxPeers == 2

CodecNames == {"", "alice", "bob"}
CodecKeys == {0, 1, 2}

\* a peer with only the mandatory field, and one with every field
PeerShapes ==
    { [PresharedKey |-> ZeroKey, AllowedIPs |-> <<>>, Endpoint |-> EmptyEndpoint,
       PersistentKeepalive |-> 0],
      [PresharedKey |-> 7, AllowedIPs |-> <<[addr |-> ServerAddr + 1, bits |-> 32]>>,
       Endpoint |-> [Host |-> "vpn.example.com", Port |-> 51820],
       PersistentKeepalive |-> 25] }

CodecPeers ==
    { [Name |-> n, Disabled |-> d, PublicKey |-> k,
       PresharedKey |-> sh.PresharedKey, AllowedIPs |-> sh.AllowedIPs,
       Endpoint |-> sh.Endpoint, PersistentKeepalive |-> sh.PersistentKeepalive] :
      n \in CodecNames, d \in BOOLEAN, k \in CodecKeys, sh \in PeerShapes }

\* an interface with only the mandatory field, and one with every field
CodecInterfaces ==
    { [EmptyInterface EXCEPT !.PrivateKey = 1],
      [PrivateKey |-> 1, Addresses |-> <<[addr |-> ServerAddr, bits |-> 24]>>,
       ListenPort |-> 51820, MTU |-> 1420, DNS |-> <<ServerAddr>>,
       DNSSearch |-> <<"lan">>, PreUp |-> "up", PostUp |-> "up",
       PreDown |-> "down", PostDown |-> "down", TableOff |-> TRUE] }

SeqsUpTo(S, n) == UNION { [1..m -> S] : m \in 0..n }

\* the Configurations the codec is run on; one peer is enough next to an
\* interface without a private key
CodecConfigs ==
    { [Name |-> "wg0", Interface |-> i, Peers |-> ps] :
      i \in CodecInterfaces, ps \in SeqsUpTo(CodecPeers, MaxPeers) }
    \cup { [Name |-> "wg0", Interface |-> EmptyInterface, Peers |-> ps] :
           ps \in SeqsUpTo(CodecPeers, 1) }

\* A valid Configuration: non-zero private key, non-zero public keys
ValidConfig(c) ==
    /\ ~IsZero(c.Interface.PrivateKey)
    /\ \A i \in 1..Len(c.Peers) : ~IsZero(c.Peers[i].PublicKey)

\* the valid client names the operations are called with
ClientNames == {"alice", "bob", "carol"}

\* names AddClient rejects: all digits, the reserved name, a character
\* outside the class, the empty name, 16 characters
BadNames == {"007", "server", "a b", "", "abcdefghijklmnop"}

\* the clients on disk at the start: a prefix of this list
InitOrder == <<"alice", "bob", "carol">>

\* most clients on disk at the start
MaxInitClients == 2

\* most file operations that fail in one run
MaxFaults == 1

\* most loads and method calls in one run
MaxCalls == 2

\* prefix lengths of the server's address 10.0.0.1/bits
SubnetBits == {29, 30}

\* creation time of the clients on disk at the start
InitTime == Now - 100

KeyKinds == {"priv", "pub", "psk"}

VARIABLES
    cstage,       \* codec: "start", "config", "exported", "written", "roundtrip", "parsed"
    cfg,          \* codec: the Configuration exported, or the one a written file describes
    text,         \* codec: the lines of the file
    blocks,       \* codec: what Export wrote, block by block
    parsed,       \* codec: what ParseConfig returned for text
    tunnelFile,   \* <tunnelDir>/wg0.conf
    registryFile, \* <configsDir>/clients.txt
    confFiles,    \* <configsDir>/<name>.conf
    userFiles,    \* <UserConfigPath>/<name>.conf
    keyFiles,     \* <keysDir>/<name>_priv, _pub, _psk: the key in the file, -1 for no file
    piholeFile,   \* /etc/pivpn/hosts.wireguard
    loaded,       \* "no", or the result of the last Load: "ok", "err", "panic"
    Server,       \* Vpn.Server
    Clients,      \* Vpn.Clients
    lock,         \* Vpn.lock: 0, or the process holding it
    pc,           \* where each process is
    frame,        \* the call each process is in: op, name, client, keys
    ret,          \* what the last call of each process returned
    faults,       \* the file operations that have failed so far
    calls,        \* the loads and method calls made so far
    before        \* history: the Vpn and its files as they were at the start

codecVars == <<cstage, cfg, text, blocks, parsed>>
diskVars == <<tunnelFile, registryFile, confFiles, userFiles, keyFiles, piholeFile>>
memVars == <<loaded, Server, Clients>>
procVars == <<lock, pc, frame, ret, faults, calls>>
vpnVars == <<diskVars, memVars, procVars>>
vars == <<codecVars, vpnVars, before>>

NoParse == [err |-> "", conf |-> EmptyConfig("")]

NoClient == MakeClient(EmptyConfig(""), FALSE, 0)

NoFrame == [op |-> "", name |-> "", client |-> NoClient,
            keys |-> [Name |-> "", PrivateKey |-> ZeroKey, PresharedKey |-> ZeroKey]]

NoRet == [op |-> "", name |-> "", err |-> "", client |-> NoClient]

\* the codec has done nothing
CodecFresh ==
    /\ cstage = "start"
    /\ cfg = EmptyConfig("")
    /\ text = <<>>
    /\ blocks = <<>>
    /\ parsed = NoParse

\* no history is kept
NoSnapshot == <<>>

CodecIdle == CodecFresh /\ before = NoSnapshot

VpnIdle ==
    /\ tunnelFile = NoFile
    /\ registryFile = NoFile
    /\ confFiles = [n \in ClientNames |-> NoFile]
    /\ userFiles = [n \in ClientNames |-> NoFile]
    /\ keyFiles = [n \in ClientNames |-> [k \in KeyKinds |-> NoKey]]
    /\ piholeFile = NoFile
    /\ loaded = "no"
    /\ Server = EmptyConfig("")
    /\ Clients = <<>>
    /\ lock = 0
    /\ pc = <<>>
    /\ frame = <<>>
    /\ ret = <<>>
    /\ faults = 0
    /\ calls = 0

(***************************************************************************)
(* The codec on its own                                                    *)
(***************************************************************************)
InitCodec == CodecIdle /\ VpnIdle

\* a Configuration built in memory
ChooseConfig ==
    /\ cstage = "start"
    /\ \E c \in CodecConfigs : cfg' = c
    /\ cstage' = "config"
    /\ UNCHANGED <<text, blocks, parsed, vpnVars, before>>

\* text := cfg.Export(); blocks keeps what was written for the interface
\* and what each peer.Export() returned
ExportConfig ==
    /\ cstage = "config"
    /\ text' = Export(cfg)
    /\ blocks' = <<InterfaceExport(cfg.Interface)>>
                 \o [i \in 1..Len(cfg.Peers) |-> PeerExport(cfg.Peers[i])]
    /\ cstage' = "exported"
    /\ UNCHANGED <<cfg, parsed, vpnVars, before>>

\* a tunnel file written by hand: the [Interface] section, then one block
\* per peer of c, each opened by its own [Peer] line, all its lines with the
\* `#[disabled] ` prefix or none; with or without an empty line after each
\* block
HandWritten(c, emptyLines) ==
    LET RECURSIVE Blocks(_)
        Blocks(ps) ==
            IF ps = <<>> THEN <<>>
            ELSE PeerExport(Head(ps))
                 \o (IF emptyLines THEN << <<>> >> ELSE <<>>)
                 \o Blocks(Tail(ps))
    IN InterfaceExport(c.Interface) \o Blocks(c.Peers)

WriteTunnelFile ==
    /\ cstage = "start"
    /\ \E c \in CodecConfigs, emptyLines \in BOOLEAN :
        /\ cfg' = c
        /\ text' = HandWritten(c, emptyLines)
    /\ cstage' = "written"
    /\ UNCHANGED <<blocks, parsed, vpnVars, before>>

\* ParseConfig(text, cfg.Name)
ParseText ==
    /\ cstage \in {"exported", "written"}
    /\ parsed' = ParseConfig(text, cfg.Name)
    /\ cstage' = IF cstage = "exported" THEN "roundtrip" ELSE "parsed"
    /\ UNCHANGED <<cfg, text, blocks, vpnVars, before>>

NextCodec == ChooseConfig \/ ExportConfig \/ WriteTunnelFile \/ ParseText

SpecCodec == InitCodec /\ [][NextCodec]_vars

(***************************************************************************)
(* The orchestrator: the files at the start                                *)
(***************************************************************************)
InitServer(bits) ==
    [EmptyInterface EXCEPT !.PrivateKey = 5,
                           !.Addresses = <<[addr |-> ServerAddr, bits |-> bits]>>,
                           !.ListenPort = 51820]

\* the i-th client on disk at the start
InitClient(i, bits, disabled) ==
    [NewClient(InitOrder[i], NewKeys(InitOrder[i]), ServerAddr + i,
               [Interface |-> InitServer(bits)])
        EXCEPT !.Disabled = disabled, !.CreationDate = InitTime]

\* the clients at the start have the addresses after the server's, inside
\* its subnet and below its last address
InitClientLists(bits) ==
    UNION { { [i \in 1..m |-> InitClient(i, bits, flags[i])] :
              flags \in [1..m -> BOOLEAN] } :
            m \in { n \in 0..MaxInitClients :
                      n <= Len(InitOrder) /\ n + 2 < Pow2(32 - bits) } }

\* the tunnel file of a server with these clients
TunnelOf(bits, clients) ==
    [Name |-> "wg0", Interface |-> InitServer(bits),
     Peers |-> [i \in 1..Len(clients) |->
                  [ToPeer(clients[i]) EXCEPT !.Disabled = clients[i].Disabled]]]

\* a line that is no `key = value`
BadConfLines == << <<SecInterface>>, <<Junk>> >>

\* how the registry differs from the tunnel file at the start, and how the
\* per-client files do
RegModes == {"same", "extra", "lacksFirst", "lacksLast", "twice"}
ConfModes == {"all", "lacksFirst", "lacksLast", "badFirst", "badLast"}

ExtraInfo ==
    [Name |-> "dave", PublicKey |-> Public(NewKeys("dave").PrivateKey),
     CreationDate |-> InitTime, IPAddr |-> ServerAddr + 5]

InitRegistry(clients, mode) ==
    LET l == ToClientInfoList(clients) IN
    CASE mode = "same" -> l
      [] mode = "extra" -> Append(l, ExtraInfo)
      [] mode = "lacksFirst" -> IF l = <<>> THEN l ELSE Tail(l)
      [] mode = "lacksLast" -> IF l = <<>> THEN l ELSE SubSeq(l, 1, Len(l) - 1)
      [] mode = "twice" -> IF l = <<>> THEN l ELSE Append(l, l[1])

InitConfFile(clients, i, mode) ==
    LET first == i = 1
        last == i = Len(clients)
    IN
    IF (mode = "lacksFirst" /\ first) \/ (mode = "lacksLast" /\ last) THEN NoFile
    ELSE IF (mode = "badFirst" /\ first) \/ (mode = "badLast" /\ last)
        THEN File(BadConfLines)
    ELSE File(Export(ClientConfig(clients[i])))

InitConfFiles(clients, mode) ==
    [n \in ClientNames |->
        IF \E i \in 1..Len(clients) : clients[i].Name = n
            THEN InitConfFile(clients, CHOOSE i \in 1..Len(clients) : clients[i].Name = n, mode)
        ELSE NoFile]

InitKeyFiles(clients) ==
    [n \in ClientNames |->
        IF \E i \in 1..Len(clients) : clients[i].Name = n
            THEN LET c == clients[CHOOSE i \in 1..Len(clients) : clients[i].Name = n] IN
                 [k \in KeyKinds |->
                    CASE k = "priv" -> c.Interface.PrivateKey
                      [] k = "pub" -> Public(c.Interface.PrivateKey)
                      [] k = "psk" -> c.Peers[1].PresharedKey]
        ELSE [k \in KeyKinds |-> NoKey]]

\* the files at the start
InitDisk(bitsSet, regModes, confModes) ==
    \E bits \in bitsSet, piholeExists \in BOOLEAN :
    \E clients \in InitClientLists(bits), rm \in regModes, cm \in confModes :
        /\ tunnelFile = File(Export(TunnelOf(bits, clients)))
        /\ registryFile = File(ClientInfoListExport(InitRegistry(clients, rm)))
        /\ confFiles = InitConfFiles(clients, cm)
        /\ userFiles = InitConfFiles(clients, cm)
        /\ keyFiles = InitKeyFiles(clients)
        /\ piholeFile = IF piholeExists
                           THEN File(PiholeLines(TunnelOf(bits, clients), clients))
                           ELSE NoFile

\* no Vpn has been constructed
NotLoaded ==
    /\ loaded = "no"
    /\ Server = EmptyConfig("")
    /\ Clients = <<>>

\* the Vpn that LoadVpn constructs from the files
Constructed ==
    LET r == LoadVpnWithLocations(tunnelFile, registryFile, confFiles) IN
        /\ loaded = r.result
        /\ Server = r.Server
        /\ Clients = r.Clients

\* the goroutines that may use the Vpn, and the one that constructs it
Procs == {1, 2}
Main == {1}

InitProcs ==
    /\ lock = 0
    /\ pc = [p \in Procs |-> "idle"]
    /\ frame = [p \in Procs |-> NoFrame]
    /\ ret = [p \in Procs |-> NoRet]
    /\ faults = 0
    /\ calls = 0

(***************************************************************************)
(* The orchestrator: steps of a process                                    *)
(***************************************************************************)
Goto(p, l) == pc' = [pc EXCEPT ![p] = l]

\* the call of p returns e; ret keeps the call and the client it built
Result(p, e) ==
    /\ ret' = [ret EXCEPT ![p] = [op |-> frame[p].op, name |-> frame[p].name,
                                  err |-> e, client |-> frame[p].client]]
    /\ frame' = [frame EXCEPT ![p] = NoFrame]

\* return e without the deferred t.lock.Unlock()
ReturnHolding(p, e) ==
    /\ pc' = [pc EXCEPT ![p] = "idle"]
    /\ ret' = [ret EXCEPT ![p] = [op |-> frame[p].op, name |-> frame[p].name,
                                  err |-> e, client |-> frame[p].client]]
    /\ frame' = [frame EXCEPT ![p] = NoFrame]
    /\ UNCHANGED lock

\* return e; the deferred t.lock.Unlock() runs
ReturnUnlock(p, e) == Goto(p, "idle") /\ lock' = 0 /\ Result(p, e)

\* return e from a method that does not take the lock
Return(p, e) == Goto(p, "idle") /\ Result(p, e) /\ UNCHANGED lock

\* a file operation succeeds, or fails
IOOutcomes == {"ok", "fails"}

\* the file operation of this step fails
Fault == faults < MaxFaults /\ faults' = faults + 1 /\ UNCHANGED calls

NoFault == UNCHANGED <<faults, calls>>

\* one more load or method call
Called == calls < MaxCalls /\ calls' = calls + 1

AllIdle == \A p \in Procs : pc[p] = "idle"

\* LoadVpn: a new Vpn from the files
Load(p) ==
    /\ pc[p] = "idle"
    /\ AllIdle
    /\ Called
    /\ LET r == LoadVpnWithLocations(tunnelFile, registryFile, confFiles) IN
        /\ loaded' = r.result
        /\ Server' = r.Server
        /\ Clients' = r.Clients
        /\ ret' = [ret EXCEPT ![p] = [NoRet EXCEPT !.op = "load", !.err = r.err]]
    /\ UNCHANGED <<codecVars, before, diskVars, lock, pc, frame, faults>>

\* a method of the Vpn is called
Call(p, op, name, l) ==
    /\ pc[p] = "idle"
    /\ loaded = "ok"
    /\ Called
    /\ frame' = [frame EXCEPT ![p] = [NoFrame EXCEPT !.op = op, !.name = name]]
    /\ ret' = [ret EXCEPT ![p] = NoRet]
    /\ Goto(p, l)
    /\ UNCHANGED <<codecVars, before, diskVars, memVars, lock, faults>>

\* t.lock.Lock()
Lock(p, from, to) ==
    /\ pc[p] = from
    /\ lock = 0
    /\ lock' = p
    /\ Goto(p, to)
    /\ UNCHANGED <<codecVars, before, diskVars, memVars, frame, ret, faults, calls>>

\* SyncTunnel, SyncClients, SyncPihole: what the file holds after a write
\* that succeeds
SyncTunnel(server) == File(Export(server))
\* a SyncClients that leaves the file as it is
SyncClientsStale(clients) == registryFile

\* a SyncClients that writes after the entries the file has
SyncClientsAppend(clients) ==
    File(registryFile.lines \o ClientInfoListExport(ToClientInfoList(clients)))

SyncClients(clients) == File(ClientInfoListExport(ToClientInfoList(clients)))
SyncPihole(server, clients) ==
    IF ~piholeFile.exists THEN piholeFile ELSE File(PiholeLines(server, clients))

(***************************************************************************)
(* AddClient                                                               *)
(***************************************************************************)
\* the name checks, before the lock is taken
AddClientCall(p, name) ==
    /\ pc[p] = "idle"
    /\ loaded = "ok"
    /\ Called
    /\ IF NameError(name) # ""
          THEN /\ ret' = [ret EXCEPT ![p] = [NoRet EXCEPT !.op = "add", !.name = name,
                                                         !.err = NameError(name)]]
               /\ UNCHANGED <<pc, frame>>
          ELSE /\ frame' = [frame EXCEPT ![p] = [NoFrame EXCEPT !.op = "add", !.name = name]]
               /\ ret' = [ret EXCEPT ![p] = NoRet]
               /\ Goto(p, "add_lock")
    /\ UNCHANGED <<codecVars, before, diskVars, memVars, lock, faults>>

AddClientLock(p) == Lock(p, "add_lock", "add_alloc")

\* the duplicate check, NewKeys, the address scan and the Client literal
AddClientAlloc(p) ==
    /\ pc[p] = "add_alloc"
    /\ LET name == frame[p].name
           ip == AllocateAddr(Server, Clients)
           keys == NewKeys(name)
       IN
       IF \E i \in 1..Len(Clients) : Clients[i].Name = name
          THEN ReturnUnlock(p, "client with this name already exists")
       ELSE IF ip = 0
          THEN ReturnUnlock(p, "unable to add client: tunnel as no usable IP addresses left")
       ELSE /\ frame' = [frame EXCEPT ![p].client = NewClient(name, keys, ip, Server),
                                      ![p].keys = keys]
            /\ Goto(p, "add_conf")
            /\ UNCHANGED <<lock, ret>>
    /\ UNCHANGED <<codecVars, before, diskVars, memVars, faults, calls>>

\* os.WriteFile(<configsDir>/<name>.conf, client.Export())
AddClientConf(p) ==
    /\ pc[p] = "add_conf"
    /\ \E io \in IOOutcomes :
        IF io = "ok"
           THEN /\ confFiles' = [confFiles EXCEPT
                      ![frame[p].name] = File(Export(ClientConfig(frame[p].client)))]
                /\ Goto(p, "add_priv")
                /\ UNCHANGED <<lock, ret, frame, faults, calls>>
           ELSE Fault /\ ReturnUnlock(p, "write failed") /\ UNCHANGED confFiles
    /\ UNCHANGED <<codecVars, before, tunnelFile, registryFile, userFiles, keyFiles, piholeFile,
                   memVars>>

\* the key files with the private and the public key exchanged
KeyOfKindSwapped(keys, kind) ==
    CASE kind = "priv" -> Public(keys.PrivateKey)
      [] kind = "pub" -> keys.PrivateKey
      [] kind = "psk" -> keys.PresharedKey

KeyOfKind(keys, kind) ==
    CASE kind = "priv" -> keys.PrivateKey
      [] kind = "pub" -> Public(keys.PrivateKey)
      [] kind = "psk" -> keys.PresharedKey

\* saveKey: os.WriteFile, then os.Chown
AddClientKey(p, kind, to) ==
    /\ pc[p] = "add_" \o kind
    /\ \E io \in {"ok", "write fails", "chown fails"} :
        /\ IF io = "write fails" THEN UNCHANGED keyFiles
           ELSE keyFiles' = [keyFiles EXCEPT ![frame[p].name][kind] = KeyOfKind(frame[p].keys, kind)]
        /\ IF io = "ok" THEN Goto(p, to) /\ UNCHANGED <<lock, ret, frame, faults, calls>>
           ELSE Fault /\ ReturnUnlock(p, "error with file " \o frame[p].name \o "_" \o kind)
    /\ UNCHANGED <<codecVars, before, tunnelFile, registryFile, confFiles, userFiles, piholeFile,
                   memVars>>

\* t.Clients = append(t.Clients, client); t.SyncClients()
AddClientRegistry(p) ==
    /\ pc[p] = "add_registry"
    /\ Clients' = Append(Clients, frame[p].client)
    /\ \E io \in IOOutcomes :
        IF io = "ok"
           THEN /\ registryFile' = SyncClients(Clients')
                /\ Goto(p, "add_tunnel")
                /\ UNCHANGED <<lock, ret, frame, faults, calls>>
           ELSE Fault /\ ReturnUnlock(p, "write failed") /\ UNCHANGED registryFile
    /\ UNCHANGED <<codecVars, before, tunnelFile, confFiles, userFiles, keyFiles, piholeFile,
                   loaded, Server>>

\* the peer of the client is appended to t.Server.Peers; t.SyncTunnel()
AddClientTunnel(p) ==
    /\ pc[p] = "add_tunnel"
    /\ Server' = [Server EXCEPT !.Peers =
                    Append(Server.Peers,
                           [ToPeer(frame[p].client) EXCEPT
                               !.PresharedKey = frame[p].keys.PresharedKey])]
    /\ \E io \in IOOutcomes :
        IF io = "ok"
           THEN /\ tunnelFile' = SyncTunnel(Server')
                /\ Goto(p, "add_pihole")
                /\ UNCHANGED <<lock, ret, frame, faults, calls>>
           ELSE Fault /\ ReturnUnlock(p, "write failed") /\ UNCHANGED tunnelFile
    /\ UNCHANGED <<codecVars, before, registryFile, confFiles, userFiles, keyFiles, piholeFile,
                   loaded, Clients>>

\* t.SyncPihole(): nothing is written, and nothing fails, without the file
AddClientPihole(p) ==
    /\ pc[p] = "add_pihole"
    /\ \E io \in IOOutcomes :
        IF io = "ok"
           THEN /\ piholeFile' = SyncPihole(Server, Clients)
                /\ Goto(p, "add_user")
                /\ UNCHANGED <<lock, ret, frame, faults, calls>>
           ELSE /\ piholeFile.exists
                /\ Fault /\ ReturnUnlock(p, "write failed") /\ UNCHANGED piholeFile
    /\ UNCHANGED <<codecVars, before, tunnelFile, registryFile, confFiles, userFiles, keyFiles,
                   memVars>>

\* os.WriteFile(<UserConfigPath>/<name>.conf, client.Export())
AddClientUser(p) ==
    /\ pc[p] = "add_user"
    /\ \E io \in IOOutcomes :
        IF io = "ok"
           THEN /\ userFiles' = [userFiles EXCEPT
                      ![frame[p].name] = File(Export(ClientConfig(frame[p].client)))]
                /\ ReturnUnlock(p, "") /\ NoFault
           ELSE Fault /\ ReturnUnlock(p, "write failed") /\ UNCHANGED userFiles
    /\ UNCHANGED <<codecVars, before, tunnelFile, registryFile, confFiles, keyFiles, piholeFile,
                   memVars>>

AddClient(p) ==
    \/ \E name \in ClientNames \cup BadNames : AddClientCall(p, name)
    \/ AddClientLock(p)
    \/ AddClientAlloc(p)
    \/ AddClientConf(p)
    \/ AddClientKey(p, "priv", "add_pub")
    \/ AddClientKey(p, "pub", "add_psk")
    \/ AddClientKey(p, "psk", "add_registry")
    \/ AddClientRegistry(p)
    \/ AddClientTunnel(p)
    \/ AddClientPihole(p)
    \/ AddClientUser(p)

(***************************************************************************)
(* RemoveClient                                                            *)
(***************************************************************************)
RemoveClientCall(p, name) == Call(p, "remove", name, "rm_lock")

RemoveClientLock(p) == Lock(p, "rm_lock", "rm_tunnel")

\* t.Server.RemovePeer(name); t.SyncTunnel()
RemoveClientTunnel(p) ==
    /\ pc[p] = "rm_tunnel"
    /\ LET r == RemovePeer(Server, frame[p].name) IN
       IF r.err # ""
          THEN ReturnUnlock(p, r.err) /\ NoFault /\ UNCHANGED <<Server, tunnelFile>>
          ELSE /\ Server' = r.conf
               /\ \E io \in IOOutcomes :
                   IF io = "ok"
                      THEN /\ tunnelFile' = SyncTunnel(Server')
                           /\ Goto(p, "rm_registry")
                           /\ UNCHANGED <<lock, ret, frame, faults, calls>>
                      ELSE Fault /\ ReturnUnlock(p, "write failed") /\ UNCHANGED tunnelFile
    /\ UNCHANGED <<codecVars, before, registryFile, confFiles, userFiles, keyFiles, piholeFile,
                   loaded, Clients>>

\* the first client, whatever its name
FirstClientOfAny(clients, name) == IF clients = <<>> THEN 0 ELSE 1

\* the first client of that name
FirstClient(clients, name) ==
    IF \E i \in 1..Len(clients) : clients[i].Name = name
       THEN CHOOSE i \in 1..Len(clients) :
                /\ clients[i].Name = name
                /\ \A j \in 1..(i - 1) : clients[j].Name # name
       ELSE 0

\* the client leaves t.Clients, if present; t.SyncClients()
RemoveClientRegistry(p) ==
    /\ pc[p] = "rm_registry"
    /\ LET idx == FirstClient(Clients, frame[p].name) IN
       Clients' = IF idx = 0 THEN Clients ELSE RemoveAt(Clients, idx)
    /\ \E io \in IOOutcomes :
        IF io = "ok"
           THEN /\ registryFile' = SyncClients(Clients')
                /\ Goto(p, "rm_conf")
                /\ UNCHANGED <<lock, ret, frame, faults, calls>>
           ELSE Fault /\ ReturnUnlock(p, "write failed") /\ UNCHANGED registryFile
    /\ UNCHANGED <<codecVars, before, tunnelFile, confFiles, userFiles, keyFiles, piholeFile,
                   loaded, Server>>

\* os.Remove(path): the error it returns.  Removing a file that is not
\* there is an error too, the one os.IsNotExist recognises.
osRemove(exists, io) ==
    IF io = "fails" THEN "permission denied"
    ELSE IF ~exists THEN "no such file or directory"
    ELSE ""

IsNotExist(err) == err = "no such file or directory"

\* a delete that goes on after every error of os.Remove
RemoveAbortsNever(err) == FALSE

\* a delete that aborts on every error of os.Remove
RemoveAbortsOnAny(err) == err # ""

\* `err != nil && !os.IsNotExist(err)`
RemoveAborts(err) == err # "" /\ ~IsNotExist(err)

\* os.Remove(<configsDir>/<name>.conf)
RemoveClientConf(p) ==
    /\ pc[p] = "rm_conf"
    /\ \E io \in IOOutcomes :
        /\ IF io = "fails" THEN Fault ELSE NoFault
        /\ IF RemoveAborts(osRemove(confFiles[frame[p].name].exists, io))
              THEN /\ ReturnUnlock(p, "error with file " \o frame[p].name \o ".conf")
                   /\ UNCHANGED confFiles
              ELSE /\ confFiles' = [confFiles EXCEPT ![frame[p].name] = NoFile]
                   /\ Goto(p, "rm_user")
                   /\ UNCHANGED <<lock, ret, frame>>
    /\ UNCHANGED <<codecVars, before, tunnelFile, registryFile, userFiles, keyFiles, piholeFile,
                   memVars>>

\* os.Remove(<UserConfigPath>/<name>.conf)
RemoveClientUser(p) ==
    /\ pc[p] = "rm_user"
    /\ \E io \in IOOutcomes :
        /\ IF io = "fails" THEN Fault ELSE NoFault
        /\ IF RemoveAborts(osRemove(userFiles[frame[p].name].exists, io))
              THEN /\ ReturnUnlock(p, "error with file " \o frame[p].name \o ".conf")
                   /\ UNCHANGED userFiles
              ELSE /\ userFiles' = [userFiles EXCEPT ![frame[p].name] = NoFile]
                   /\ Goto(p, "rm_priv")
                   /\ UNCHANGED <<lock, ret, frame>>
    /\ UNCHANGED <<codecVars, before, tunnelFile, registryFile, confFiles, keyFiles, piholeFile,
                   memVars>>


\* os.Remove(<keysDir>/<name>_<kind>)
RemoveClientKey(p, kind, to) ==
    /\ pc[p] = "rm_" \o kind
    /\ \E io \in IOOutcomes :
        /\ IF io = "fails" THEN Fault ELSE NoFault
        /\ IF RemoveAborts(osRemove(keyFiles[frame[p].name][kind] # NoKey, io))
              THEN /\ ReturnUnlock(p, "error with file " \o frame[p].name \o "_" \o kind)
                   /\ UNCHANGED keyFiles
              ELSE /\ keyFiles' = [keyFiles EXCEPT ![frame[p].name][kind] = NoKey]
                   /\ Goto(p, to)
                   /\ UNCHANGED <<lock, ret, frame>>
    /\ UNCHANGED <<codecVars, before, tunnelFile, registryFile, confFiles, userFiles, piholeFile,
                   memVars>>

\* t.SyncPihole()
RemoveClientPihole(p) ==
    /\ pc[p] = "rm_pihole"
    /\ \E io \in IOOutcomes :
        IF io = "ok"
           THEN /\ piholeFile' = SyncPihole(Server, Clients)
                /\ ReturnUnlock(p, "") /\ NoFault
           ELSE /\ piholeFile.exists
                /\ Fault /\ ReturnUnlock(p, "write failed") /\ UNCHANGED piholeFile
    /\ UNCHANGED <<codecVars, before, tunnelFile, registryFile, confFiles, userFiles, keyFiles,
                   memVars>>

RemoveClient(p) ==
    \/ \E name \in ClientNames : RemoveClientCall(p, name)
    \/ RemoveClientLock(p)
    \/ RemoveClientTunnel(p)
    \/ RemoveClientRegistry(p)
    \/ RemoveClientConf(p)
    \/ RemoveClientUser(p)
    \/ RemoveClientKey(p, "priv", "rm_psk")
    \/ RemoveClientKey(p, "psk", "rm_pub")
    \/ RemoveClientKey(p, "pub", "rm_pihole")
    \/ RemoveClientPihole(p)

(***************************************************************************)
(* DisableClient and EnableClient                                          *)
(***************************************************************************)
\* every client gets the flag, whatever its name
SetDisabledAll(clients, name, flag) ==
    [i \in 1..Len(clients) |-> [clients[i] EXCEPT !.Disabled = flag]]

\* every client of that name gets the flag
SetDisabled(clients, name, flag) ==
    [i \in 1..Len(clients) |->
        IF clients[i].Name = name THEN [clients[i] EXCEPT !.Disabled = flag]
        ELSE clients[i]]

DisableClientCall(p, name) == Call(p, "disable", name, "dis_lock")

DisableClientLock(p) == Lock(p, "dis_lock", "dis_sync")

\* t.Server.DisablePeer(name); the flag of the clients; return t.SyncTunnel()
DisableClientSync(p) ==
    /\ pc[p] = "dis_sync"
    /\ LET r == DisablePeer(Server, frame[p].name) IN
       IF r.err # ""
          THEN /\ ReturnUnlock(p, r.err) /\ NoFault
               /\ UNCHANGED <<Server, Clients, tunnelFile>>
          ELSE /\ Server' = r.conf
               /\ Clients' = SetDisabled(Clients, frame[p].name, TRUE)
               /\ \E io \in IOOutcomes :
                   IF io = "ok"
                      THEN /\ tunnelFile' = SyncTunnel(Server')
                           /\ ReturnUnlock(p, "") /\ NoFault
                      ELSE Fault /\ ReturnUnlock(p, "write failed") /\ UNCHANGED tunnelFile
    /\ UNCHANGED <<codecVars, before, registryFile, confFiles, userFiles, keyFiles, piholeFile,
                   loaded>>

DisableClient(p) ==
    \/ \E name \in ClientNames : DisableClientCall(p, name)
    \/ DisableClientLock(p)
    \/ DisableClientSync(p)

EnableClientCall(p, name) == Call(p, "enable", name, "en_lock")

EnableClientLock(p) == Lock(p, "en_lock", "en_sync")

\* t.Server.EnablePeer(name); the flag of the clients; return t.SyncTunnel()
EnableClientSync(p) ==
    /\ pc[p] = "en_sync"
    /\ LET r == EnablePeer(Server, frame[p].name) IN
       IF r.err # ""
          THEN /\ ReturnUnlock(p, r.err) /\ NoFault
               /\ UNCHANGED <<Server, Clients, tunnelFile>>
          ELSE /\ Server' = r.conf
               /\ Clients' = SetDisabled(Clients, frame[p].name, FALSE)
               /\ \E io \in IOOutcomes :
                   IF io = "ok"
                      THEN /\ tunnelFile' = SyncTunnel(Server')
                           /\ ReturnUnlock(p, "") /\ NoFault
                      ELSE Fault /\ ReturnUnlock(p, "write failed") /\ UNCHANGED tunnelFile
    /\ UNCHANGED <<codecVars, before, registryFile, confFiles, userFiles, keyFiles, piholeFile,
                   loaded>>

EnableClient(p) ==
    \/ \E name \in ClientNames : EnableClientCall(p, name)
    \/ EnableClientLock(p)
    \/ EnableClientSync(p)

(***************************************************************************)
(* sync: SyncClients, SyncTunnel, SyncPihole, none of which takes the lock *)
(***************************************************************************)
SyncCall(p) == Call(p, "sync", "", "sync_clients")

CmdSyncClients(p) ==
    /\ pc[p] = "sync_clients"
    /\ \E io \in IOOutcomes :
        IF io = "ok"
           THEN /\ registryFile' = SyncClients(Clients)
                /\ Goto(p, "sync_tunnel")
                /\ UNCHANGED <<lock, ret, frame, faults, calls>>
           ELSE Fault /\ Return(p, "write failed") /\ UNCHANGED registryFile
    /\ UNCHANGED <<codecVars, before, tunnelFile, confFiles, userFiles, keyFiles, piholeFile,
                   memVars>>

CmdSyncTunnel(p) ==
    /\ pc[p] = "sync_tunnel"
    /\ \E io \in IOOutcomes :
        IF io = "ok"
           THEN /\ tunnelFile' = SyncTunnel(Server)
                /\ Goto(p, "sync_pihole")
                /\ UNCHANGED <<lock, ret, frame, faults, calls>>
           ELSE Fault /\ Return(p, "write failed") /\ UNCHANGED tunnelFile
    /\ UNCHANGED <<codecVars, before, registryFile, confFiles, userFiles, keyFiles, piholeFile,
                   memVars>>

CmdSyncPihole(p) ==
    /\ pc[p] = "sync_pihole"
    /\ \E io \in IOOutcomes :
        IF io = "ok"
           THEN /\ piholeFile' = SyncPihole(Server, Clients)
                /\ Return(p, "") /\ NoFault
           ELSE /\ piholeFile.exists
                /\ Fault /\ Return(p, "write failed") /\ UNCHANGED piholeFile
    /\ UNCHANGED <<codecVars, before, tunnelFile, registryFile, confFiles, userFiles, keyFiles,
                   memVars>>

Sync(p) ==
    \/ SyncCall(p)
    \/ CmdSyncClients(p)
    \/ CmdSyncTunnel(p)
    \/ CmdSyncPihole(p)

(***************************************************************************)
(* One process on loadable files                                           *)
(***************************************************************************)
InitVpn ==
    /\ CodecIdle
    /\ InitDisk(SubnetBits, {"same"}, {"all"})
    /\ Constructed
    /\ InitProcs

NextVpn ==
    \E p \in Main :
        \/ Load(p)
        \/ AddClient(p)
        \/ RemoveClient(p)
        \/ DisableClient(p)
        \/ EnableClient(p)
        \/ Sync(p)

SpecVpn == InitVpn /\ [][NextVpn]_vars
(***************************************************************************)
(* LoadVpn on files that agree, and on files that do not                   *)
(***************************************************************************)
InitLoad ==
    /\ CodecIdle
    /\ InitDisk(SubnetBits, RegModes, ConfModes)
    /\ NotLoaded
    /\ InitProcs

NextLoad == \E p \in Main : Load(p)

SpecLoad == InitLoad /\ [][NextLoad]_vars

(***************************************************************************)
(* Two goroutines on one Vpn                                               *)
(***************************************************************************)
InitConc ==
    /\ CodecIdle
    /\ InitDisk({29}, {"same"}, {"all"})
    /\ Constructed
    /\ InitProcs

NextConc ==
    \E p \in Procs :
        \/ AddClient(p)
        \/ RemoveClient(p)
        \/ DisableClient(p)
        \/ EnableClient(p)
        \/ Sync(p)

SpecConc == InitConc /\ [][NextConc]_vars
(***************************************************************************)
(* Properties of the codec                                                 *)
(***************************************************************************)
\* the line starts with `#[disabled] `
HasDisabledPrefix(line) == Len(line) >= 2 /\ line[1] = Hash /\ line[2] = Dis

\* C1: round-trip law.  For every valid Configuration C (non-zero interface
\* private key, non-zero peer public keys, peers named or unnamed, enabled
\* or disabled), ParseConfig(C.Export()) succeeds and returns a
\* Configuration equal to C: same interface, same peers in the same order.
RoundTripLaw ==
    (cstage = "roundtrip" /\ ValidConfig(cfg))
        => (parsed.err = "" /\ parsed.conf = cfg)

\* the round trip of a Configuration with one disabled peer without a name
\* has been made
RoundTripOfUnnamedDisabled ==
    /\ cstage = "roundtrip"
    /\ ValidConfig(cfg)
    /\ Len(cfg.Peers) = 1
    /\ cfg.Peers[1].Name = ""
    /\ cfg.Peers[1].Disabled

\* C2: a tunnel file made of an [Interface] section and k peer blocks, each
\* opened by its own [Peer] line and carrying its own PublicKey, parses to
\* exactly k peers in document order, each with the fields of its block;
\* a block whose lines all carry `#[disabled] ` gives Disabled = TRUE, every
\* other block Disabled = FALSE.
PeerBlocksParse ==
    (cstage = "parsed" /\ ValidConfig(cfg))
        => (parsed.err = "" /\ parsed.conf.Peers = cfg.Peers)

\* the file with two blocks without names, the first plain and the second
\* disabled, has been parsed
TwoBlocksParsed ==
    /\ cstage = "parsed"
    /\ ValidConfig(cfg)
    /\ Len(cfg.Peers) = 2
    /\ cfg.Peers[1].Name = "" /\ ~cfg.Peers[1].Disabled
    /\ cfg.Peers[2].Name = "" /\ cfg.Peers[2].Disabled

\* the text Config.Export makes of the interface block and the peer blocks
RECURSIVE JoinBlocks(_, _)
JoinBlocks(bs, peers) ==
    IF peers = <<>> THEN Head(bs)
    ELSE JoinBlocks(SubSeq(bs, 1, Len(bs) - 1), SubSeq(peers, 1, Len(peers) - 1))
         \o bs[Len(bs)]
         \o (IF peers[Len(peers)].Name = "" THEN << <<>> >> ELSE <<>>)

\* C10: Config.Export marks disabled peers completely and only them: every
\* line of a disabled peer's block (begin marker, [Peer] header, field lines,
\* end marker) starts with `#[disabled] `, and no line of an enabled peer's
\* block or of the interface block does.
ExportMarksDisabled ==
    cstage \in {"exported", "roundtrip"} =>
        /\ Len(blocks) = Len(cfg.Peers) + 1
        /\ text = JoinBlocks(blocks, cfg.Peers)
        /\ \A l \in 1..Len(blocks[1]) : ~HasDisabledPrefix(blocks[1][l])
        /\ \A i \in 1..Len(cfg.Peers) :
            /\ Len(blocks[i + 1]) >= 2
            /\ \A l \in 1..Len(blocks[i + 1]) :
                HasDisabledPrefix(blocks[i + 1][l]) <=> cfg.Peers[i].Disabled

\* a Configuration with a disabled named peer before an enabled one has
\* been exported
ExportedDisabledAndEnabled ==
    /\ cstage = "exported"
    /\ Len(cfg.Peers) = 2
    /\ cfg.Peers[1].Name = "alice" /\ cfg.Peers[1].Disabled
    /\ ~cfg.Peers[2].Disabled
    /\ HasDisabledPrefix(text[Len(blocks[1]) + 1])
    /\ HasDisabledPrefix(text[Len(blocks[1]) + Len(blocks[2])])
    /\ ~HasDisabledPrefix(text[Len(blocks[1]) + Len(blocks[2]) + 1])

(***************************************************************************)
(* Properties of LoadVpn                                                   *)
(***************************************************************************)
\* the names of the peers of the tunnel file
TunnelNames ==
    LET c == ParseConfig(tunnelFile.lines, "wg0").conf IN
    { c.Peers[i].Name : i \in 1..Len(c.Peers) }

\* the names of the entries of the registry file
RegistryNames ==
    LET l == ParseClientList(registryFile.lines).list IN
    { l[i].Name : i \in 1..Len(l) }

\* C3: if the tunnel file contains a peer whose name has no entry in the
\* client registry, Load returns an error and no Vpn.
LoadRefusesUnregisteredPeer ==
    \A p \in Procs :
        (ret[p].op = "load" /\ \E n \in TunnelNames : n \notin RegistryNames)
            => (loaded = "err" /\ ret[p].err # "" /\ Clients = <<>>)

\* C4: Load cross-validates in both directions: a registry entry that has no
\* peer in the tunnel file, or whose per-client file is missing or does not
\* parse, fails the whole Load with an error.
LoadCrossValidates ==
    \A p \in Procs :
        (/\ ret[p].op = "load"
         /\ \E n \in RegistryNames :
                \/ n \notin TunnelNames
                \/ ~ConfFile(confFiles, n).exists
                \/ ParseConfig(ConfFile(confFiles, n).lines, n).err # "")
            => (loaded = "err" /\ ret[p].err # "")

(***************************************************************************)
(* Properties of the Vpn                                                   *)
(***************************************************************************)
ServerNames == { Server.Peers[i].Name : i \in 1..Len(Server.Peers) }

\* C5: in every state reachable by Load and any sequence of AddClient,
\* RemoveClient, EnableClient, DisableClient and Sync calls, seen when no
\* call is in progress (also after a call that returned an error), the
\* entries of the registry file, the peers of the server Configuration and
\* the existing per-client files correspond one-to-one by name.
RegistryPeersFilesAgree ==
    (loaded = "ok" /\ AllIdle) =>
        /\ Cardinality(RegistryNames) = Len(registryFile.lines)
        /\ Cardinality(ServerNames) = Len(Server.Peers)
        /\ RegistryNames = ServerNames
        /\ RegistryNames = { n \in ClientNames : confFiles[n].exists }

\* C6: Load, AddClient, RemoveClient, EnableClient, DisableClient and Sync on
\* one Vpn are mutually exclusive: never are two of them at once reading or
\* writing the server Configuration, the client list or the files.
InOperation(p) == pc[p] \notin {"idle", "add_lock", "rm_lock", "dis_lock", "en_lock"}

MutualExclusion ==
    \A p, q \in Procs : (p # q) => ~(InOperation(p) /\ InOperation(q))

\* the address AddClient has chosen for the client of p
Allocated(p) == frame[p].client.Interface.Addresses[1].addr

HeldAddresses == { Clients[i].Interface.Addresses[1].addr : i \in 1..Len(Clients) }

\* b is greater than the server's address, inside its subnet, and held by
\* no client
FreeAddress(b) ==
    /\ b > Server.Interface.Addresses[1].addr
    /\ Contains(Server.Interface.Addresses[1], b)
    /\ b \notin HeldAddresses

\* C7: AddClient gives the new client the lowest address that is greater
\* than the server's, inside the server's subnet and held by no existing
\* client; an address freed by RemoveClient is handed out again before any
\* higher unused address.
LowestFreeAddress ==
    \A p \in Procs :
        pc[p] = "add_conf" =>
            /\ FreeAddress(Allocated(p))
            /\ \A b \in (Server.Interface.Addresses[1].addr + 1)..(Allocated(p) - 1) :
                   ~FreeAddress(b)

\* AddClient has chosen an address below the address of a client: one that
\* was freed
FreedAddressReused ==
    \E p \in Procs :
        /\ pc[p] = "add_conf"
        /\ \E a \in HeldAddresses : a > Allocated(p)

\* a host address of the subnet: neither its first nor its last address
HostAddress(netblock, ip) ==
    /\ Contains(netblock, ip)
    /\ ip % Pow2(32 - netblock.bits) # 0
    /\ ip % Pow2(32 - netblock.bits) # Pow2(32 - netblock.bits) - 1

\* C8: when every host address of the server's subnet is in use, AddClient
\* fails with the exhaustion error and creates nothing; no address outside
\* the host addresses, such as the last address of the subnet, is ever
\* allocated.
OnlyHostAddressesAllocated ==
    \A p \in Procs :
        pc[p] = "add_conf" =>
            HostAddress(Server.Interface.Addresses[1], Allocated(p))

\* the lines of a tunnel file that open the block of a peer with a name
BlockStarts(lines) ==
    { i \in 1..Len(lines) : \E j \in 1..Len(lines[i]) : lines[i][j].t = " begin " }

NthStart(lines, k) ==
    CHOOSE i \in BlockStarts(lines) :
        Cardinality({ j \in BlockStarts(lines) : j < i }) = k - 1

\* the k-th peer block of a tunnel file
FileBlock(lines, k) ==
    SubSeq(lines, NthStart(lines, k),
           IF k < Cardinality(BlockStarts(lines))
              THEN NthStart(lines, k + 1) - 1 ELSE Len(lines))

\* p's DisableClient on the first of the two peers of a tunnel file just
\* loaded returns without error
DisableFirstOfTwo(p) ==
    /\ pc[p] = "dis_sync"
    /\ pc'[p] = "idle"
    /\ ret'[p].err = ""
    /\ tunnelFile = File(Export(Server))
    /\ Len(Server.Peers) = 2
    /\ Server.Peers[1].Name = frame[p].name

\* C9: after loading a tunnel file with two peers, a successful
\* DisableClient on the first peer rewrites the tunnel file so that every
\* line of the first block carries `#[disabled] ` and the second block is as
\* before; no peer but the named one changes its Disabled flag or a field.
DisableFirstKeepsSecond ==
    [][\A p \in Procs :
        DisableFirstOfTwo(p) =>
            /\ Cardinality(BlockStarts(tunnelFile'.lines)) = 2
            /\ \A l \in 1..Len(FileBlock(tunnelFile'.lines, 1)) :
                   HasDisabledPrefix(FileBlock(tunnelFile'.lines, 1)[l])
            /\ FileBlock(tunnelFile'.lines, 2) = FileBlock(tunnelFile.lines, 2)
            /\ SubSeq(tunnelFile'.lines, 1, NthStart(tunnelFile'.lines, 1) - 1)
                 = SubSeq(tunnelFile.lines, 1, NthStart(tunnelFile.lines, 1) - 1)
            /\ Server'.Interface = Server.Interface
            /\ Server'.Peers = [Server.Peers EXCEPT ![1].Disabled = TRUE]
            /\ Len(Clients') = Len(Clients)
            /\ \A i \in 1..Len(Clients) :
                   Clients[i].Name # frame[p].name => Clients'[i] = Clients[i]]_vars

\* the first of two peers was disabled by the first call on the Vpn, the
\* second is enabled
FirstOfTwoDisabled ==
    \E p \in Procs :
        /\ ret[p].op = "disable"
        /\ ret[p].err = ""
        /\ calls = 1
        /\ Len(Server.Peers) = 2
        /\ Server.Peers[1].Name = ret[p].name
        /\ Server.Peers[1].Disabled
        /\ ~Server.Peers[2].Disabled
        /\ tunnelFile = File(Export(Server))
        /\ HasDisabledPrefix(FileBlock(tunnelFile.lines, 1)[1])
        /\ ~HasDisabledPrefix(FileBlock(tunnelFile.lines, 2)[1])

\* C11: ParseConfig fails, returning an error and no Configuration, whenever
\* the interface's private key is absent or is the all-zero key, or a peer's
\* public key is absent or is the all-zero key: a Configuration it returns
\* has a non-zero interface private key and non-zero public keys on all
\* peers, and with an error it returns none.
ParsedKeysNonZero ==
    cstage \in {"roundtrip", "parsed"} =>
        /\ parsed.err = "" => ValidConfig(parsed.conf)
        /\ parsed.err # "" => parsed.conf = EmptyConfig("")

\* a file whose interface has `PrivateKey = ` the all-zero key, and no
\* peers, has been parsed
ZeroPrivateKeyParsed ==
    /\ cstage = "parsed"
    /\ IsZero(cfg.Interface.PrivateKey)
    /\ cfg.Peers = <<>>

(***************************************************************************)
(* The peer mutators on a Configuration built from an empty one            *)
(***************************************************************************)
\* no file exists
NoDisk ==
    /\ tunnelFile = NoFile
    /\ registryFile = NoFile
    /\ confFiles = [n \in ClientNames |-> NoFile]
    /\ userFiles = [n \in ClientNames |-> NoFile]
    /\ keyFiles = [n \in ClientNames |-> [k \in KeyKinds |-> NoKey]]
    /\ piholeFile = NoFile

\* cfg is the empty Configuration
InitPeers == CodecIdle /\ NoDisk /\ NotLoaded /\ InitProcs

\* p called a mutator of cfg, which returned r
Mutated(p, op, name, r) ==
    /\ pc[p] = "idle"
    /\ cfg' = r.conf
    /\ ret' = [ret EXCEPT ![p] = [NoRet EXCEPT !.op = op, !.name = name, !.err = r.err]]
    /\ UNCHANGED <<cstage, text, blocks, parsed, diskVars, memVars, lock, pc, frame,
                   faults, calls, before>>

\* cfg.AddPeer(peer), while the list it makes is within the bound
AddPeerCall(p, peer) ==
    /\ Len(AddPeer(cfg, peer).conf.Peers) <= MaxPeers
    /\ Mutated(p, "AddPeer", peer.Name, AddPeer(cfg, peer))

RemovePeerCall(p, name) == Mutated(p, "RemovePeer", name, RemovePeer(cfg, name))

EnablePeerCall(p, name) == Mutated(p, "EnablePeer", name, EnablePeer(cfg, name))

DisablePeerCall(p, name) == Mutated(p, "DisablePeer", name, DisablePeer(cfg, name))

NextPeers ==
    \E p \in Main :
        \/ \E peer \in CodecPeers : AddPeerCall(p, peer)
        \/ \E name \in CodecNames : RemovePeerCall(p, name)
        \/ \E name \in CodecNames : EnablePeerCall(p, name)
        \/ \E name \in CodecNames : DisablePeerCall(p, name)

SpecPeers == InitPeers /\ [][NextPeers]_vars

(***************************************************************************)
(* Properties of the peer mutators                                         *)
(***************************************************************************)
PeerNames(c) == { c.Peers[i].Name : i \in 1..Len(c.Peers) }

\* C12: RemovePeer, EnablePeer and DisablePeer called with a name that no
\* peer of the Configuration carries return the peer-not-found error and
\* leave the peer list as it was: same peers, same order, same Disabled
\* flags.
AbsentNameLeavesPeers ==
    [][\A p \in Main, name \in CodecNames :
        (/\ name \notin PeerNames(cfg)
         /\ \/ RemovePeerCall(p, name)
            \/ EnablePeerCall(p, name)
            \/ DisablePeerCall(p, name))
        => (ret'[p].err = "peer not found" /\ cfg'.Peers = cfg.Peers)]_vars

\* a mutator has returned peer-not-found on a list that holds another peer
AbsentNameRefused ==
    \E p \in Main :
        /\ ret[p].op \in {"RemovePeer", "EnablePeer", "DisablePeer"}
        /\ ret[p].err = "peer not found"
        /\ Len(cfg.Peers) >= 1
        /\ ret[p].name # ""
        /\ ret[p].name \notin PeerNames(cfg)

\* C13: AddPeer(p) fails and leaves the peer list unchanged if p.Name is
\* empty or an existing peer already has that name; otherwise it appends p
\* as the last peer and changes no existing peer.  So a peer list built from
\* an empty Configuration through AddPeer, RemovePeer, EnablePeer and
\* DisablePeer never holds two peers of the same name.
AddPeerKeepsNamesUnique ==
    /\ [][\A p \in Main, peer \in CodecPeers :
            AddPeerCall(p, peer) =>
                IF peer.Name = "" \/ peer.Name \in PeerNames(cfg)
                   THEN ret'[p].err # "" /\ cfg'.Peers = cfg.Peers
                   ELSE ret'[p].err = "" /\ cfg'.Peers = Append(cfg.Peers, peer)]_vars
    /\ [](Cardinality(PeerNames(cfg)) = Len(cfg.Peers))

\* AddPeer has refused a peer whose name is in the list, after it appended
\* peers of two names
DuplicateNameRefused ==
    \E p \in Main :
        /\ ret[p].op = "AddPeer"
        /\ ret[p].err = "peer is already registered"
        /\ Len(cfg.Peers) = 2
        /\ ret[p].name \in PeerNames(cfg)

(***************************************************************************)
(* Properties of AddClient, EnableClient, DisableClient, RemoveClient and  *)
(* sync                                                                    *)
(***************************************************************************)
\* 1 to 15 characters of [a-zA-Z0-9.@_-], one of them no digit, and not the
\* reserved name
NameAcceptable(name) ==
    /\ Len(name) \in 1..15
    /\ \A i \in 1..Len(name) : Char(name, i) \in NameChars
    /\ \E i \in 1..Len(name) : Char(name, i) \notin Digits
    /\ name # "server"

ClientNamesOf(clients) == { clients[i].Name : i \in 1..Len(clients) }

\* C14: AddClient(name) accepts a name exactly when it has 1 to 15
\* characters of [a-zA-Z0-9.@_-], at least one of them no digit, is not
\* `server`, and no existing client has that name; a rejected name creates
\* no client, allocates no address and writes no file.
NameRulesDecide ==
    [][\A p \in Procs :
        /\ \A name \in ClientNames \cup BadNames :
            AddClientCall(p, name) =>
                IF NameAcceptable(name)
                   THEN pc'[p] = "add_lock" /\ ret'[p].err = ""
                   ELSE /\ pc'[p] = "idle"
                        /\ ret'[p].op = "add" /\ ret'[p].err # ""
                        /\ ret'[p].client = NoClient
                        /\ UNCHANGED <<diskVars, memVars>>
        /\ AddClientAlloc(p) =>
                IF frame[p].name \in ClientNamesOf(Clients)
                   THEN /\ pc'[p] = "idle"
                        /\ ret'[p].err = "client with this name already exists"
                        /\ ret'[p].client = NoClient
                        /\ UNCHANGED <<diskVars, memVars>>
                   ELSE \/ pc'[p] = "add_conf" /\ frame'[p].client.Name = frame[p].name
                        \/ /\ pc'[p] = "idle"
                           /\ AllocateAddr(Server, Clients) = 0
                           /\ ret'[p].err # ""]_vars

\* AddClient has refused a name of digits only, and before that accepted a
\* name without a digit
DigitsOnlyRefused ==
    \E p \in Procs :
        /\ ret[p].op = "add" /\ ret[p].name = "007" /\ ret[p].err # ""
        /\ calls = 2
        /\ \E i \in 1..Len(Clients) : Clients[i].CreationDate = Now

\* the list with the Disabled flag of the entries of that name set, and
\* nothing else changed
WithFlag(list, name, flag) ==
    [i \in 1..Len(list) |->
        IF list[i].Name = name THEN [list[i] EXCEPT !.Disabled = flag] ELSE list[i]]

\* p's EnableClient (flag FALSE) or DisableClient (flag TRUE) returns
\* without error
ToggleSucceeds(p, flag) ==
    /\ IF flag THEN DisableClientSync(p) ELSE EnableClientSync(p)
    /\ ret'[p].err = ""

\* C15: a successful EnableClient or DisableClient writes exactly one file,
\* the tunnel file: the registry file, every per-client configuration file,
\* every key file and the DNS host file are left unchanged, and in memory
\* only the Disabled flag of the named peer and of the named client record
\* changes.
ToggleWritesTunnelOnly ==
    [][\A p \in Procs, flag \in BOOLEAN :
        ToggleSucceeds(p, flag) =>
            /\ UNCHANGED <<registryFile, confFiles, userFiles, keyFiles, piholeFile>>
            /\ tunnelFile' = File(Export(Server'))
            /\ Server'.Name = Server.Name
            /\ Server'.Interface = Server.Interface
            /\ Server'.Peers = WithFlag(Server.Peers, frame[p].name, flag)
            /\ Clients' = WithFlag(Clients, frame[p].name, flag)
            /\ Cardinality({ i \in 1..Len(Clients) : Clients[i].Name = frame[p].name }) = 1]_vars

\* the first call on a Vpn with two disabled clients was an EnableClient,
\* which succeeded: one client is enabled, the other still disabled
OneOfTwoEnabled ==
    \E p \in Procs :
        /\ ret[p].op = "enable" /\ ret[p].err = ""
        /\ calls = 1
        /\ Len(Clients) = 2
        /\ \E i, j \in 1..2 :
            /\ Clients[i].Name = ret[p].name /\ ~Clients[i].Disabled
            /\ ~Server.Peers[i].Disabled
            /\ Clients[j].Name # ret[p].name /\ Clients[j].Disabled
            /\ Server.Peers[j].Disabled
        /\ tunnelFile = File(Export(Server))

(***************************************************************************)
(* RemoveClient on a Vpn some of whose files were deleted after it was     *)
(* loaded                                                                  *)
(***************************************************************************)
\* what was deleted since the Vpn was loaded: nothing, the user-facing
\* copies, the key files, or every per-client file
LackModes == {"none", "user", "keys", "all"}

InitRemove ==
    /\ CodecIdle
    /\ \E piholeExists \in BOOLEAN, clients \in InitClientLists(29), lack \in LackModes :
        LET server == TunnelOf(29, clients)
            r == LoadVpnWithLocations(File(Export(server)),
                                      File(ClientInfoListExport(ToClientInfoList(clients))),
                                      InitConfFiles(clients, "all"))
        IN
        /\ tunnelFile = File(Export(server))
        /\ registryFile = File(ClientInfoListExport(ToClientInfoList(clients)))
        /\ confFiles = IF lack = "all" THEN [n \in ClientNames |-> NoFile]
                       ELSE InitConfFiles(clients, "all")
        /\ userFiles = IF lack \in {"user", "all"} THEN [n \in ClientNames |-> NoFile]
                       ELSE InitConfFiles(clients, "all")
        /\ keyFiles = IF lack \in {"keys", "all"}
                         THEN [n \in ClientNames |-> [k \in KeyKinds |-> NoKey]]
                      ELSE InitKeyFiles(clients)
        /\ piholeFile = IF piholeExists THEN File(PiholeLines(server, clients)) ELSE NoFile
        /\ loaded = r.result
        /\ Server = r.Server
        /\ Clients = r.Clients
    /\ InitProcs

NextRemove == \E p \in Main : RemoveClient(p)

SpecRemove == InitRemove /\ [][NextRemove]_vars

\* p's delete of a file returns: RemoveClient goes on to step `to`, or
\* aborts after a failure of os.Remove with an error that names the file
DeleteContinuesOrAborts(p, to, gone, same, file) ==
    \/ /\ pc'[p] = to
       /\ gone
       /\ faults' = faults
       /\ ret'[p] = ret[p]
    \/ /\ pc'[p] = "idle"
       /\ same
       /\ faults' = faults + 1
       /\ ret'[p].err = "error with file " \o file

\* C16: in RemoveClient, a per-client configuration file (system or
\* user-facing copy) or key file that does not exist when it is to be deleted
\* counts as already deleted: RemoveClient continues with the remaining
\* steps and can return success; any other failure of a delete aborts
\* RemoveClient at that step with an error that names the file.
MissingFileCountsAsDeleted ==
    [][\A p \in Procs :
        /\ RemoveClientConf(p) =>
            DeleteContinuesOrAborts(p, "rm_user", ~confFiles'[frame[p].name].exists,
                                    confFiles' = confFiles, frame[p].name \o ".conf")
        /\ RemoveClientUser(p) =>
            DeleteContinuesOrAborts(p, "rm_priv", ~userFiles'[frame[p].name].exists,
                                    userFiles' = userFiles, frame[p].name \o ".conf")
        /\ \A kind \in KeyKinds :
            (\E to \in {"rm_psk", "rm_pub", "rm_pihole"} : RemoveClientKey(p, kind, to)) =>
                \E to \in {"rm_psk", "rm_pub", "rm_pihole"} :
                    DeleteContinuesOrAborts(p, to, keyFiles'[frame[p].name][kind] = NoKey,
                                            keyFiles' = keyFiles,
                                            frame[p].name \o "_" \o kind)]_vars

\* RemoveClient has returned success on a Vpn whose per-client files were
\* all deleted before: another client is left, also without files
RemovedWithoutFiles ==
    \E p \in Procs :
        /\ ret[p].op = "remove" /\ ret[p].err = ""
        /\ Len(Clients) = 1
        /\ ret[p].name # Clients[1].Name
        /\ ~confFiles[Clients[1].Name].exists
        /\ ~userFiles[Clients[1].Name].exists
        /\ keyFiles[Clients[1].Name]["priv"] = NoKey

(***************************************************************************)
(* sync on the files an AddClient leaves that failed to write the tunnel   *)
(* file: the new client is in the registry and has its configuration and   *)
(* key files, but is no peer of the tunnel file                            *)
(***************************************************************************)
\* the clients of the tunnel file, and after them the client of the failed
\* AddClient, if there is one
InitOrphans(clients) ==
    IF Len(clients) < Len(InitOrder)
       THEN { <<>>, << InitClient(Len(clients) + 1, 29, FALSE) >> }
       ELSE { <<>> }

InitSync ==
    /\ CodecIdle
    /\ \E piholeExists \in BOOLEAN, clients \in InitClientLists(29) :
       \E orphan \in InitOrphans(clients) :
        /\ tunnelFile = File(Export(TunnelOf(29, clients)))
        /\ registryFile = File(ClientInfoListExport(ToClientInfoList(clients \o orphan)))
        /\ confFiles = InitConfFiles(clients \o orphan, "all")
        /\ userFiles = InitConfFiles(clients, "all")
        /\ keyFiles = InitKeyFiles(clients \o orphan)
        /\ piholeFile = IF piholeExists
                           THEN File(PiholeLines(TunnelOf(29, clients), clients))
                           ELSE NoFile
    /\ NotLoaded
    /\ InitProcs

NextSync == \E p \in Main : Load(p) \/ Sync(p)

SpecSync == InitSync /\ [][NextSync]_vars

\* C17: Sync rewrites the registry file, the tunnel file and the DNS host
\* file from the in-memory state and creates, modifies or deletes no
\* per-client configuration file and no key file; after a successful Load
\* followed by Sync the registry file holds exactly one entry per in-memory
\* client, so registry entries without a tunnel peer are gone.
SyncRewritesFromMemory ==
    /\ [][\A p \in Procs :
            (SyncCall(p) \/ CmdSyncClients(p) \/ CmdSyncTunnel(p) \/ CmdSyncPihole(p))
                => UNCHANGED <<confFiles, userFiles, keyFiles, memVars>>]_vars
    /\ [](\A p \in Procs :
            (ret[p].op = "sync" /\ ret[p].err = "" /\ pc[p] = "idle" /\ loaded = "ok") =>
                /\ registryFile = File(ClientInfoListExport(ToClientInfoList(Clients)))
                /\ tunnelFile = File(Export(Server))
                /\ piholeFile \in {NoFile, File(PiholeLines(Server, Clients))}
                /\ Len(registryFile.lines) = Len(Clients)
                /\ RegistryNames = ClientNamesOf(Clients)
                /\ RegistryNames \subseteq TunnelNames)

\* Load and then Sync have succeeded on files whose registry had an entry
\* without a peer: that client's configuration file is there, its registry
\* entry is gone
OrphanEntryGone ==
    \E p \in Procs :
        /\ ret[p].op = "sync" /\ ret[p].err = "" /\ pc[p] = "idle"
        /\ Len(Clients) >= 1
        /\ \E n \in ClientNames :
            /\ confFiles[n].exists
            /\ n \notin RegistryNames

(***************************************************************************)
(* sync on a Vpn whose clients have names with characters that no DNS host *)
(* name may hold                                                           *)
(***************************************************************************)
\* client names AddClient accepts: without, with one, and with two
\* adjacent characters outside [a-zA-Z0-9-]
DnsNames == {"bob", "b-b", "b.b", "b._b", "b@b.c"}

DnsClient(name, i) ==
    [NewClient(name, NewKeys(name), ServerAddr + i, [Interface |-> InitServer(29)])
        EXCEPT !.CreationDate = InitTime]

\* one client, or two of different names
DnsClientLists ==
    { << DnsClient(n, 1) >> : n \in DnsNames }
    \cup { l \in { << DnsClient(n, 1), DnsClient(m, 2) >> : n \in DnsNames, m \in DnsNames } :
             l[1].Name # l[2].Name }

KeyFilesOf(c) ==
    [k \in KeyKinds |-> KeyOfKind([PrivateKey |-> c.Interface.PrivateKey,
                                  PresharedKey |-> c.Peers[1].PresharedKey], k)]

\* the files of these clients; the DNS host file, if there is one, names the
\* server only
InitPihole ==
    /\ CodecIdle
    /\ \E piholeExists \in BOOLEAN, clients \in DnsClientLists :
        LET names == { clients[i].Name : i \in 1..Len(clients) }
            of(n) == clients[CHOOSE i \in 1..Len(clients) : clients[i].Name = n]
        IN
        /\ tunnelFile = File(Export(TunnelOf(29, clients)))
        /\ registryFile = File(ClientInfoListExport(ToClientInfoList(clients)))
        /\ confFiles = [n \in names |-> File(Export(ClientConfig(of(n))))]
        /\ userFiles = [n \in names |-> File(Export(ClientConfig(of(n))))]
        /\ keyFiles = [n \in names |-> KeyFilesOf(of(n))]
        /\ piholeFile = IF piholeExists
                           THEN File(PiholeLines(TunnelOf(29, clients), <<>>))
                           ELSE NoFile
    /\ Constructed
    /\ InitProcs

NextPihole == \E p \in Main : Sync(p)

SpecPihole == InitPihole /\ [][NextPihole]_vars

\* the name with every single character outside [A-Za-z0-9-] replaced by
\* one `-`
RECURSIVE EachCharReplaced(_, _)
EachCharReplaced(s, i) ==
    IF i > Len(s) THEN ""
    ELSE (IF Char(s, i) \in DNSChars THEN Char(s, i) ELSE "-")
         \o EachCharReplaced(s, i + 1)

\* C18: in the DNS host-mapping file each client's host name is its client
\* name with every single character outside [A-Za-z0-9-] replaced by one
\* `-`, character by character, so that the host name is as long as the
\* client name; when the DNS host file does not exist, rewriting it is
\* skipped without error and without creating it.
HostNamesReplaceEachChar ==
    /\ [](\A p \in Procs :
            (/\ ret[p].op = "sync" /\ ret[p].err = "" /\ pc[p] = "idle"
             /\ piholeFile.exists) =>
                /\ Len(piholeFile.lines) = Len(Clients) + 1
                /\ \A i \in 1..Len(Clients) :
                    /\ piholeFile.lines[i + 1].host = EachCharReplaced(Clients[i].Name, 1)
                    /\ Len(piholeFile.lines[i + 1].host) = Len(Clients[i].Name))
    /\ [][\A p \in Procs :
            (CmdSyncPihole(p) /\ ~piholeFile.exists) =>
                (~piholeFile'.exists /\ ret'[p].err = "" /\ pc'[p] = "idle")]_vars

\* sync has rewritten the DNS host file of a Vpn with the client `b._b`
HostFileOfDottedName ==
    \E p \in Procs :
        /\ ret[p].op = "sync" /\ ret[p].err = "" /\ pc[p] = "idle"
        /\ piholeFile.exists
        /\ Len(Clients) = 1
        /\ Clients[1].Name = "b._b"
        /\ Len(piholeFile.lines) = 2

(***************************************************************************)
(* The registry codec on its own: a client-info list is exported and       *)
(* parsed, a registry text is parsed and exported                          *)
(***************************************************************************)
\* most entries of a list, or lines of a text, given to the registry codec
MaxEntries == 2

\* names without and with a blank, the empty name, names of 15 and of 16
\* characters
RegistryTestNames == {"alice", "a b", "", "abcdefghijklmno", "abcdefghijklmnop"}

RegistryInfos ==
    { [Name |-> n, PublicKey |-> Public(NewKeys(n).PrivateKey),
       CreationDate |-> t, IPAddr |-> ip] :
      n \in RegistryTestNames, t \in {0, InitTime}, ip \in {0, ServerAddr + 1} }

RegistryLists == SeqsUpTo(RegistryInfos, MaxEntries)

\* a line as pivpn or a hand may have left it: written in the fixed widths,
\* or with a name field that is not filled, an address field one blank
\* wider, zeros before the time, an address in dotted form, or a key that
\* is no base64
LineForms == {"fixed", "short name field", "wide address field", "zeros", "dotted", "bad key"}

LineAs(info, form) ==
    LET line == ExportLine(info) IN
    CASE form = "fixed" -> line
      [] form = "short name field" -> [line EXCEPT !.namePad = 0]
      [] form = "wide address field" -> [line EXCEPT !.ipPad = line.ipPad + 1]
      [] form = "zeros" -> [line EXCEPT !.timeS = "zeros"]
      [] form = "dotted" -> [line EXCEPT !.ipS = "dotted"]
      [] form = "bad key" -> [line EXCEPT !.keyS = "bad"]

\* a list of client infos is built in memory
ChooseList ==
    /\ cstage = "start"
    /\ \E l \in RegistryLists : cfg' = l
    /\ cstage' = "list"
    /\ UNCHANGED <<text, blocks, parsed, vpnVars, before>>

\* text := cfg.Export()
ExportList ==
    /\ cstage = "list"
    /\ text' = ClientInfoListExport(cfg)
    /\ cstage' = "listed"
    /\ UNCHANGED <<cfg, blocks, parsed, vpnVars, before>>

\* a registry file as found on disk: at most one of its lines is not in
\* the fixed widths
WriteRegistry ==
    /\ cstage = "start"
    /\ \E l \in RegistryLists, j \in 1..MaxEntries, form \in LineForms :
        /\ cfg' = l
        /\ text' = [i \in 1..Len(l) |-> LineAs(l[i], IF i = j THEN form ELSE "fixed")]
    /\ cstage' = "registry"
    /\ UNCHANGED <<blocks, parsed, vpnVars, before>>

\* ParseClientList(text)
ParseRegistry ==
    /\ cstage \in {"listed", "registry"}
    /\ parsed' = ParseClientList(text)
    /\ cstage' = IF cstage = "listed" THEN "reparsed" ELSE "read"
    /\ UNCHANGED <<cfg, text, blocks, vpnVars, before>>

\* blocks := the list ParseClientList returned, exported
ExportParsed ==
    /\ cstage = "read"
    /\ parsed.err = ""
    /\ blocks' = ClientInfoListExport(parsed.list)
    /\ cstage' = "rewritten"
    /\ UNCHANGED <<cfg, text, parsed, vpnVars, before>>

NextRegistry == ChooseList \/ ExportList \/ WriteRegistry \/ ParseRegistry \/ ExportParsed

SpecRegistry == InitCodec /\ [][NextRegistry]_vars

(***************************************************************************)
(* Properties of the registry codec                                        *)
(***************************************************************************)
HasBlank(name) == \E i \in 1..Len(name) : Char(name, i) = " "

\* the line is in the fixed-width form: the name left-justified in 15, the
\* key right-justified in 44, the time in 10, the address as an unsigned
\* number in 10
FixedWidth(line) ==
    /\ Len(line.name) \in 1..15 /\ ~HasBlank(line.name)
    /\ line.namePad = 15 - Len(line.name)
    /\ line.keyS = "b64" /\ line.keyPad = 0
    /\ line.timeS = "dec" /\ DecLen(line.time) <= 10
    /\ line.timePad = 10 - DecLen(line.time)
    /\ line.ipS = "dec" /\ line.ip >= 0 /\ DecLen(line.ip) <= 10
    /\ line.ipPad = 10 - DecLen(line.ip)

\* C19: registry round trip.  For every client-info list L whose names are
\* non-empty and contain no whitespace, ParseClientList(L.Export()) returns
\* the same names, public keys, creation times (in whole seconds) and IPv4
\* addresses in the same order; and for a registry text T in the fixed-width
\* form, ParseClientList(T).Export() reproduces T exactly.
RegistryRoundTrip ==
    /\ (/\ cstage = "reparsed"
        /\ \A i \in 1..Len(cfg) : cfg[i].Name # "" /\ ~HasBlank(cfg[i].Name))
            => (parsed.err = "" /\ parsed.list = cfg)
    /\ (/\ cstage \in {"read", "rewritten"}
        /\ \A i \in 1..Len(text) : FixedWidth(text[i]))
            => /\ parsed.err = ""
               /\ cstage = "rewritten" => blocks = text

\* a registry text of two lines in the fixed-width form, the name of the
\* first shorter than its field and the name of the second filling it, has
\* been parsed and exported again
FixedWidthTextRewritten ==
    /\ cstage = "rewritten"
    /\ Len(text) = 2
    /\ \A i \in 1..2 : FixedWidth(text[i])
    /\ text[1].namePad > 0 /\ text[1].ipPad > 0
    /\ text[2].namePad = 0

(***************************************************************************)
(* The manager next to another process on the same files: pivpn, or a      *)
(* second manager, adds a client while the manager holds its loaded Vpn    *)
(***************************************************************************)
\* the process that is not the manager
Others == Procs \ Main

\* the files the other process writes for its new client
ExternalWrite(q, name, r, client) ==
    /\ confFiles' = [confFiles EXCEPT ![name] = File(Export(ClientConfig(client)))]
    /\ userFiles' = [userFiles EXCEPT ![name] = File(Export(ClientConfig(client)))]
    /\ keyFiles' = [keyFiles EXCEPT ![name] = KeyFilesOf(client)]
    /\ registryFile' = SyncClients(Append(r.Clients, client))
    /\ tunnelFile' = SyncTunnel([r.Server EXCEPT !.Peers = Append(@, ToPeer(client))])
    /\ piholeFile' = SyncPihole([r.Server EXCEPT !.Peers = Append(@, ToPeer(client))],
                                Append(r.Clients, client))
    /\ ret' = [ret EXCEPT ![q] = [NoRet EXCEPT !.op = "external add",
                                               !.name = name, !.client = client]]

\* the other process picks a free name and the next free address
ExternalAlloc(q, r, ip) ==
    /\ r.result = "ok"
    /\ ip # 0
    /\ \E name \in ClientNames \ ClientNamesOf(r.Clients) :
           ExternalWrite(q, name, r, NewClient(name, NewKeys(name), ip, r.Server))

\* what the other process does with the Vpn it has loaded
ExternalLoaded(q, r) == ExternalAlloc(q, r, AllocateAddr(r.Server, r.Clients))

\* the other process loads the files and adds a client, all at once, while
\* the manager is between two of its steps; it does so once
ExternalAdd(q) ==
    /\ ret[q].op = ""
    /\ ExternalLoaded(q, LoadVpnWithLocations(tunnelFile, registryFile, confFiles))
    /\ UNCHANGED <<codecVars, before, memVars, lock, pc, frame, faults, calls>>

InitExternal ==
    /\ CodecIdle
    /\ InitDisk({29}, {"same"}, {"all"})
    /\ Constructed
    /\ InitProcs

NextExternal ==
    \/ \E q \in Others : ExternalAdd(q)
    \/ \E p \in Main :
        \/ AddClient(p)
        \/ RemoveClient(p)
        \/ DisableClient(p)
        \/ EnableClient(p)
        \/ Sync(p)

SpecExternal == InitExternal /\ [][NextExternal]_vars

\* C20: the manager can be used simultaneously with pivpn (or a second
\* manager process) on the same files: a client that another process adds
\* to the tunnel file and the registry file after the manager's Load and
\* before the manager's own rewrite of those files is still present in both
\* files after the manager's operation completes (no lost update).
NoLostUpdate ==
    \A q \in Others :
        (ret[q].op = "external add" /\ \A p \in Main : pc[p] = "idle") =>
            /\ ret[q].name \in TunnelNames
            /\ ret[q].name \in RegistryNames

\* another process has added a client, and after that the manager has
\* completed a DisableClient of another client without error
DisabledAfterExternalAdd ==
    \E q \in Others, p \in Main :
        /\ ret[q].op = "external add"
        /\ ret[p].op = "disable" /\ ret[p].err = "" /\ pc[p] = "idle"
        /\ calls = 1
        /\ ret[q].name \notin ClientNamesOf(Clients)
        /\ confFiles[ret[q].name].exists

(***************************************************************************)
(* The persist sequences of AddClient and RemoveClient, step by step       *)
(***************************************************************************)
AddSteps == <<"add_conf", "add_priv", "add_pub", "add_psk",
              "add_registry", "add_tunnel", "add_pihole", "add_user">>

RemoveSteps == <<"rm_tunnel", "rm_registry", "rm_conf", "rm_user",
                 "rm_priv", "rm_psk", "rm_pub", "rm_pihole">>

\* the place of label l in a sequence of steps, 0 if it is no step of it
StepOf(steps, l) ==
    IF \E k \in 1..Len(steps) : steps[k] = l
       THEN CHOOSE k \in 1..Len(steps) : steps[k] = l
       ELSE 0

\* the file that step j of AddClient for the name n writes
AddTarget(j, n) ==
    CASE j = 1 -> confFiles[n]
      [] j = 2 -> keyFiles[n]["priv"]
      [] j = 3 -> keyFiles[n]["pub"]
      [] j = 4 -> keyFiles[n]["psk"]
      [] j = 5 -> registryFile
      [] j = 6 -> tunnelFile
      [] j = 7 -> piholeFile
      [] j = 8 -> userFiles[n]

\* step j of AddClient for the client c has written its file
AddWritten(j, n, c) ==
    CASE j \in {1, 8} -> AddTarget(j, n) = File(Export(ClientConfig(c)))
      [] j = 2 -> AddTarget(j, n) = c.Interface.PrivateKey
      [] j = 3 -> AddTarget(j, n) = Public(c.Interface.PrivateKey)
      [] j = 4 -> AddTarget(j, n) = c.Peers[1].PresharedKey
      [] j = 5 -> registryFile = SyncClients(Clients) /\ n \in RegistryNames
      [] j = 6 -> tunnelFile = SyncTunnel(Server) /\ n \in TunnelNames
      [] j = 7 -> piholeFile.exists => piholeFile = File(PiholeLines(Server, Clients))

\* step j of AddClient for the client c has changed the Vpn in memory
AddInMemory(j, n, c) ==
    CASE j = 5 -> Len(Clients) > 0 /\ Clients[Len(Clients)] = c
      [] j = 6 -> /\ Len(Server.Peers) > 0
                  /\ Server.Peers[Len(Server.Peers)].Name = n
                  /\ Server.Peers[Len(Server.Peers)].PublicKey = Public(c.Interface.PrivateKey)
      [] OTHER -> TRUE

\* the file that step j of RemoveClient for the name n writes or deletes
RemoveTarget(j, n) ==
    CASE j = 1 -> tunnelFile
      [] j = 2 -> registryFile
      [] j = 3 -> confFiles[n]
      [] j = 4 -> userFiles[n]
      [] j = 5 -> keyFiles[n]["priv"]
      [] j = 6 -> keyFiles[n]["psk"]
      [] j = 7 -> keyFiles[n]["pub"]
      [] j = 8 -> piholeFile

\* step j of RemoveClient for the name n has written or deleted its file
RemoveWritten(j, n) ==
    CASE j = 1 -> tunnelFile = SyncTunnel(Server) /\ n \notin TunnelNames
      [] j = 2 -> registryFile = SyncClients(Clients) /\ n \notin RegistryNames
      [] j \in {3, 4} -> RemoveTarget(j, n) = NoFile
      [] j \in {5, 6, 7} -> RemoveTarget(j, n) = NoKey
      [] j = 8 -> piholeFile.exists => piholeFile = File(PiholeLines(Server, Clients))

\* step j of RemoveClient for the name n has changed the Vpn in memory
RemoveInMemory(j, n) ==
    CASE j = 1 -> n \notin ServerNames
      [] j = 2 -> n \notin ClientNamesOf(Clients)
      [] OTHER -> TRUE

\* a process at step k of AddClient or RemoveClient has behind it the
\* effects of the steps 1..k-1
EarlierStepsDone ==
    \A p \in Procs :
        /\ \A j \in 1..(StepOf(AddSteps, pc[p]) - 1) :
             /\ AddWritten(j, frame[p].name, frame[p].client)
             /\ AddInMemory(j, frame[p].name, frame[p].client)
        /\ \A j \in 1..(StepOf(RemoveSteps, pc[p]) - 1) :
             /\ RemoveWritten(j, frame[p].name)
             /\ RemoveInMemory(j, frame[p].name)

\* the file operation of step k of p's AddClient fails in this step
AddStepFails(p, k) ==
    /\ StepOf(AddSteps, pc[p]) = k
    /\ faults' = faults + 1

\* the file operation of step k of p's RemoveClient fails in this step
RemoveStepFails(p, k) ==
    /\ StepOf(RemoveSteps, pc[p]) = k
    /\ faults' = faults + 1

\* p's call returns an error and releases the lock in this step
ReturnsError(p) ==
    /\ pc'[p] = "idle"
    /\ ret'[p].err # ""
    /\ ret'[p].name = frame[p].name
    /\ lock' = 0

\* C21: AddClient and RemoveClient are not transactional: if step k of the
\* persist sequence fails, the operation returns that error at once, every
\* effect of steps 1..k-1 (files written or deleted, client appended to or
\* dropped from the in-memory list, peer appended to or removed from the
\* server Configuration) stays as it is with no rollback, and no step after
\* k is executed.  The effects of the steps 1..k-1 are there when step k
\* begins, the failing step leaves every file of another step as it is and
\* keeps what the steps up to k changed in memory.
NotTransactional ==
    /\ []EarlierStepsDone
    /\ [][\A p \in Procs, k \in 1..8, n \in ClientNames :
            /\ (AddStepFails(p, k) /\ frame[p].name = n) =>
                 \A c \in {frame[p].client} :
                    /\ ReturnsError(p)
                    /\ \A j \in 1..(k - 1) : AddTarget(j, n)' = AddTarget(j, n)
                    /\ \A j \in 1..k : AddInMemory(j, n, c)'
                    /\ \A j \in (k + 1)..8 :
                          /\ AddTarget(j, n)' = AddTarget(j, n)
                          /\ (j = 6 => Server' = Server)
            /\ (RemoveStepFails(p, k) /\ frame[p].name = n) =>
                    /\ ReturnsError(p)
                    /\ \A j \in 1..(k - 1) : RemoveTarget(j, n)' = RemoveTarget(j, n)
                    /\ \A j \in 1..k : RemoveInMemory(j, n)'
                    /\ \A j \in (k + 1)..8 :
                          /\ RemoveTarget(j, n)' = RemoveTarget(j, n)
                          /\ (j = 2 => Clients' = Clients)]_vars

\* an AddClient has failed writing the tunnel file: the client is in the
\* client list and the registry file, its peer in the server Configuration,
\* and the tunnel file does not name it
AddFailedAtTunnel ==
    \E p \in Procs :
        /\ pc[p] = "idle"
        /\ ret[p].op = "add"
        /\ ret[p].err = "write failed"
        /\ ret[p].name \in ClientNamesOf(Clients)
        /\ ret[p].name \in RegistryNames
        /\ ret[p].name \in ServerNames
        /\ ret[p].name \notin TunnelNames
        /\ confFiles[ret[p].name].exists
        /\ ~userFiles[ret[p].name].exists

\* p's AddClient makes step k for the name n in this step, and no file
\* operation fails
AddStepSucceeds(p, k, n) ==
    /\ StepOf(AddSteps, pc[p]) = k
    /\ frame[p].name = n
    /\ pc'[p] # pc[p]
    /\ faults' = faults

\* while AddClient has not passed the step that writes the tunnel file, the
\* tunnel file does not name its client; once it names it, the registry file
\* and the per-client config file do
TunnelFileNamesLast ==
    \A p \in Procs :
        LET k == StepOf(AddSteps, pc[p]) IN
        /\ k \in 1..6 => frame[p].name \notin TunnelNames
        /\ (k > 0 /\ frame[p].name \in TunnelNames) =>
              /\ frame[p].name \in RegistryNames
              /\ confFiles[frame[p].name] = File(Export(ClientConfig(frame[p].client)))

\* C22: a successful AddClient performs its effects in exactly this order:
\* write the per-client config file; write the private, public and
\* preshared key files; append the client to the in-memory client list;
\* rewrite the registry file; append the client's peer to the server
\* Configuration and rewrite the tunnel file; rewrite the DNS host file;
\* write the user-facing copy of the per-client config.  In particular the
\* tunnel file never names the new client before the registry file and the
\* per-client config file do.
AddClientOrder ==
    /\ [](\A p \in Procs :
            \A j \in 1..(StepOf(AddSteps, pc[p]) - 1) :
                /\ AddWritten(j, frame[p].name, frame[p].client)
                /\ AddInMemory(j, frame[p].name, frame[p].client))
    /\ []TunnelFileNamesLast
    /\ [][\A p \in Procs, k \in 1..8, n \in ClientNames :
            AddStepSucceeds(p, k, n) =>
                /\ pc'[p] = IF k = 8 THEN "idle" ELSE AddSteps[k + 1]
                /\ k = 8 => (ret'[p].op = "add" /\ ret'[p].err = "")
                /\ \A j \in 1..8 : j # k => AddTarget(j, n)' = AddTarget(j, n)
                /\ (k \in {2, 3, 4}) => (AddTarget(k, n)' # NoKey)
                /\ (k \in {1, 5, 6, 8}) => AddTarget(k, n)'.exists
                /\ (k # 5) => (Clients' = Clients)
                /\ (k = 5) => (Clients' = Append(Clients, frame[p].client))
                /\ (k # 6) => (Server' = Server)
                /\ (k = 6) => (/\ Len(Server'.Peers) = Len(Server.Peers) + 1
                               /\ SubSeq(Server'.Peers, 1, Len(Server.Peers)) = Server.Peers)]_vars

\* an AddClient has returned without error: every file names the client
AddedEverywhere ==
    \E p \in Procs :
        /\ pc[p] = "idle"
        /\ ret[p].op = "add"
        /\ ret[p].err = ""
        /\ ret[p].name \in TunnelNames
        /\ ret[p].name \in RegistryNames
        /\ ret[p].name \in ServerNames
        /\ ret[p].name \in ClientNamesOf(Clients)
        /\ confFiles[ret[p].name] = File(Export(ClientConfig(ret[p].client)))
        /\ userFiles[ret[p].name] = confFiles[ret[p].name]
        /\ keyFiles[ret[p].name]["priv"] = ret[p].client.Interface.PrivateKey

(***************************************************************************)
(* One Vpn on any files that load, with file operations that fail; every   *)
(* state is one the process may stop in                                    *)
(***************************************************************************)
InitCrash ==
    /\ CodecIdle
    /\ InitDisk({29}, RegModes, ConfModes)
    /\ Constructed
    /\ loaded = "ok"
    /\ InitProcs

NextCrash ==
    \E p \in Main :
        \/ AddClient(p)
        \/ RemoveClient(p)
        \/ DisableClient(p)
        \/ EnableClient(p)

SpecCrash == InitCrash /\ [][NextCrash]_vars

\* the errors of Load for a peer without registry entry or without
\* per-client file
MissingErrors == {"client not found in clients.txt", "open: no such file"}

MemoryMirrorsServer ==
    (loaded = "ok" /\ AllIdle) =>
        /\ Len(Clients) = Len(Server.Peers)
        /\ \A i \in 1..Len(Clients) :
              i <= Len(Server.Peers) =>
                 /\ Clients[i].Name = Server.Peers[i].Name
                 /\ Clients[i].Disabled = Server.Peers[i].Disabled

\* a RemoveClient has returned the error of its write of the tunnel file:
\* the peer has left the server Configuration, the client is in the list
RemoveFailedAtTunnel ==
    \E p \in Main :
        /\ pc[p] = "idle"
        /\ loaded = "ok"
        /\ ret[p].op = "remove"
        /\ ret[p].err = "write failed"
        /\ ret[p].name \in ClientNamesOf(Clients)
        /\ ret[p].name \notin ServerNames
        /\ ret[p].name \in TunnelNames

\* the tunnel peers whose per-client file opens and does not parse
UnparsableConfs ==
    { n \in TunnelNames :
        /\ ConfFile(confFiles, n).exists
        /\ ParseConfig(ConfFile(confFiles, n).lines, n).err # "" }

\* C25: if the per-client configuration file of a tunnel peer can be opened
\* but fails to parse (malformed line, unknown key, missing private key),
\* Load returns that parse failure as an error value and no Vpn object; it
\* never continues with a missing client configuration and never crashes.
LoadReturnsParseFailure ==
    \A p \in Procs :
        (ret[p].op = "load" /\ UnparsableConfs # {}) =>
            /\ loaded = "err"
            /\ ret[p].err \in { ParseConfig(ConfFile(confFiles, n).lines, n).err :
                                  n \in UnparsableConfs }
            /\ Clients = <<>>

\* Load has met a per-client file that does not parse, of a peer that has
\* its registry entry, and has not returned
LoadCrashedOnUnparsableConf ==
    \E p \in Procs :
        /\ ret[p].op = "load"
        /\ loaded = "panic"
        /\ UnparsableConfs # {}
        /\ UnparsableConfs \subseteq RegistryNames
        /\ Cardinality(RegistryNames) = Len(registryFile.lines)

\* the first line of the first peer block of the file written from cfg
FirstBlockLine == text[Len(InterfaceExport(cfg.Interface)) + 1]

\* a file has been parsed whose first peer block does not open with the
\* `#[disabled] ` prefix
FirstBlockEnabled ==
    /\ cstage \in {"parsed", "roundtrip"}
    /\ Len(cfg.Peers) >= 1
    /\ ~cfg.Peers[1].Disabled
    /\ ~HasDisabledPrefix(FirstBlockLine)

\* C26: the disabled state of a parsed peer is decided only by the first
\* line of its block: a peer block whose first line does not carry the
\* `#[disabled] ` prefix yields a peer with Disabled = false, whatever lines
\* follow it (including a later comment line starting with `#[disabled]`,
\* such as the first line of a following disabled block), and such later
\* lines do not change that peer's name or fields.
FirstLineDecidesDisabled ==
    (FirstBlockEnabled /\ parsed.err = "") =>
        /\ Len(parsed.conf.Peers) >= 1
        /\ ~parsed.conf.Peers[1].Disabled
        /\ parsed.conf.Peers[1] = cfg.Peers[1]

\* an enabled block followed by a disabled block has been parsed, and the
\* peer of the enabled block has come out disabled
EnabledBlockParsedDisabled ==
    /\ FirstBlockEnabled
    /\ Len(cfg.Peers) = 2
    /\ cfg.Peers[2].Disabled
    /\ parsed.err = ""
    /\ Len(parsed.conf.Peers) >= 1
    /\ parsed.conf.Peers[1].Disabled
    /\ parsed.conf.Peers[1].PublicKey = cfg.Peers[1].PublicKey

\* the addresses of the clients are pairwise distinct, and none is the
\* server's
AddressesDistinct(server, clients) ==
    /\ \A i, j \in 1..Len(clients) :
          i # j => clients[i].Interface.Addresses[1].addr
                     # clients[j].Interface.Addresses[1].addr
    /\ \A i \in 1..Len(clients) :
          clients[i].Interface.Addresses[1].addr # server.Interface.Addresses[1].addr

\* C27: client addresses stay unique: if after Load the clients' addresses
\* are pairwise distinct and none equals the server's address, then after
\* any sequence of AddClient, RemoveClient, EnableClient and DisableClient
\* calls no two clients in the in-memory client list have the same address,
\* no client has the server's address, and every address allocated by
\* AddClient lies inside the server's subnet.
AddressesStayUnique ==
    /\ [](loaded = "ok" => AddressesDistinct(Server, Clients))
    /\ [](\A p \in Procs :
            StepOf(AddSteps, pc[p]) > 0 =>
               /\ Contains(Server.Interface.Addresses[1], Allocated(p))
               /\ Allocated(p) # Server.Interface.Addresses[1].addr
               /\ Allocated(p) \notin
                    { Clients[i].Interface.Addresses[1].addr :
                        i \in { i \in 1..Len(Clients) : Clients[i].Name # frame[p].name } })
    /\ [][AddressesDistinct(Server, Clients) => AddressesDistinct(Server', Clients')]_vars

\* an AddClient has returned without error on a Vpn that had a client: the
\* clients hold as many addresses as there are clients
AddedClientHoldsOwnAddress ==
    /\ loaded = "ok"
    /\ AllIdle
    /\ calls >= 1
    /\ \E p \in Main : ret[p].op = "add" /\ ret[p].err = ""
    /\ Len(Clients) >= 2
    /\ Cardinality(HeldAddresses) = Len(Clients)
    /\ tunnelFile = File(Export(Server))

(***************************************************************************)
(* AddClient followed directly by RemoveClient of the same name            *)
(***************************************************************************)
\* the Vpn in memory and what its files hold
Snapshot ==
    [Server |-> Server,
     Clients |-> Clients,
     tunnel |-> ParseConfig(tunnelFile.lines, "wg0"),
     registry |-> ParseClientList(registryFile.lines),
     pihole |-> piholeFile]

\* the files are what a sync of the Vpn in memory writes
InSync ==
    /\ tunnelFile = SyncTunnel(Server)
    /\ registryFile = SyncClients(Clients)
    /\ piholeFile = SyncPihole(Server, Clients)

InitUndo ==
    /\ CodecFresh
    /\ InitDisk(SubnetBits, {"same"}, {"all"})
    /\ Constructed
    /\ InSync
    /\ InitProcs
    /\ before = Snapshot

\* p's last call was an AddClient that returned nil
Added(p) == ret[p].op = "add" /\ ret[p].err = ""

\* AddClient until one has returned nil, then RemoveClient of its name
NextUndo ==
    \E p \in Main :
        \/ ~Added(p) /\ AddClient(p)
        \/ Added(p) /\ RemoveClientCall(p, ret[p].name)
        \/ RemoveClientLock(p)
        \/ RemoveClientTunnel(p)
        \/ RemoveClientRegistry(p)
        \/ RemoveClientConf(p)
        \/ RemoveClientUser(p)
        \/ RemoveClientKey(p, "priv", "rm_psk")
        \/ RemoveClientKey(p, "psk", "rm_pub")
        \/ RemoveClientKey(p, "pub", "rm_pihole")
        \/ RemoveClientPihole(p)

SpecUndo == InitUndo /\ [][NextUndo]_vars

\* C28: AddClient(n) followed directly by RemoveClient(n), with every file
\* operation succeeding and the files in sync with memory beforehand,
\* restores the state from before AddClient: the server peer list, the
\* client list and the parsed contents of the registry file, tunnel file and
\* DNS host file are equal to what they were, and no per-client config file
\* (system or user copy) or key file of n remains.
RemoveUndoesAdd ==
    \A p \in Main :
        (ret[p].op = "remove" /\ ret[p].err = "" /\ pc[p] = "idle" /\ faults = 0) =>
            /\ Server.Peers = before.Server.Peers
            /\ Clients = before.Clients
            /\ ParseClientList(registryFile.lines) = before.registry
            /\ ParseConfig(tunnelFile.lines, "wg0") = before.tunnel
            /\ piholeFile = before.pihole
            /\ confFiles[ret[p].name] = NoFile
            /\ userFiles[ret[p].name] = NoFile
            /\ \A k \in KeyKinds : keyFiles[ret[p].name][k] = NoKey

\* a client was added to a Vpn with a client and a DNS host file, and
\* removed again, without a failed file operation
AddedThenRemoved ==
    \E p \in Main :
        /\ ret[p].op = "remove"
        /\ ret[p].err = ""
        /\ pc[p] = "idle"
        /\ faults = 0
        /\ calls = 2
        /\ Len(before.Clients) >= 1
        /\ before.pihole.exists
        /\ ret[p].name \notin ClientNamesOf(before.Clients)

(***************************************************************************)
(* The codec on the Configurations the orchestrator writes: every peer     *)
(* has a name AddClient accepts                                            *)
(***************************************************************************)
OwnNames == {"alice", "b.o_b@-1"}

\* the peers of Client.ToPeer, and peers with only the mandatory field
OwnPeers == { p \in CodecPeers : p.Name = "alice" }
            \cup { [p EXCEPT !.Name = "b.o_b@-1"] : p \in { q \in CodecPeers : q.Name = "bob" } }

OwnConfigs ==
    { [Name |-> "wg0", Interface |-> i, Peers |-> ps] :
      i \in CodecInterfaces, ps \in SeqsUpTo(OwnPeers, MaxPeers) }

\* the server Configuration as the orchestrator holds it
ChooseOwnConfig ==
    /\ cstage = "start"
    /\ \E c \in OwnConfigs : cfg' = c
    /\ cstage' = "config"
    /\ UNCHANGED <<text, blocks, parsed, vpnVars, before>>

NextOwn == ChooseOwnConfig \/ ExportConfig \/ ParseText

SpecOwn == InitCodec /\ [][NextOwn]_vars

\* every peer has a name made only of the characters [a-zA-Z0-9.@_-]
AllNamed(c) ==
    \A i \in 1..Len(c.Peers) :
        /\ c.Peers[i].Name # ""
        /\ \A j \in 1..Len(c.Peers[i].Name) : Char(c.Peers[i].Name, j) \in NameChars

\* C29: round-trip for the orchestrator's own configurations: for every
\* valid Configuration in which every peer has a name made only of
\* characters [a-zA-Z0-9.@_-] (as AddClient guarantees), with any mix of
\* enabled and disabled peers, ParseConfig(C.Export()) is structurally equal
\* to C; so a tunnel file written by SyncTunnel is read back by Load with
\* the same peers, names, order and Disabled flags.
OwnRoundTrip ==
    (cstage = "roundtrip" /\ ValidConfig(cfg) /\ AllNamed(cfg)) =>
        /\ parsed.err = ""
        /\ parsed.conf = cfg
        /\ ParseConfig(SyncTunnel(cfg).lines, "wg0").conf.Peers = cfg.Peers

\* the round trip of a disabled peer followed by an enabled peer whose name
\* has every kind of character has been made
RoundTripOfDisabledThenEnabled ==
    /\ cstage = "roundtrip"
    /\ ValidConfig(cfg)
    /\ AllNamed(cfg)
    /\ Len(cfg.Peers) = 2
    /\ cfg.Peers[1].Disabled
    /\ ~cfg.Peers[2].Disabled
    /\ cfg.Peers[2].Name = "b.o_b@-1"
    /\ parsed.conf.Peers = cfg.Peers

(***************************************************************************)
(* Two goroutines on one Vpn, each scheduled again and again               *)
(***************************************************************************)
InitFair ==
    /\ CodecIdle
    /\ InitDisk(SubnetBits, {"same"}, {"all"})
    /\ Constructed
    /\ InitProcs

\* a call of one of the four methods that take the lock, or a step of one
Method(p) ==
    \/ AddClient(p)
    \/ RemoveClient(p)
    \/ DisableClient(p)
    \/ EnableClient(p)

\* a step of the call p is in
Proceed(p) == pc[p] # "idle" /\ Method(p)

NextFair == \E p \in Procs : Method(p)

\* a goroutine inside a call is scheduled until the call returns; a
\* goroutine blocked in t.lock.Lock() runs once the lock is free
SpecFair ==
    /\ InitFair
    /\ [][NextFair]_vars
    /\ \A p \in Procs : WF_vars(Proceed(p))

\* where a process waits in t.lock.Lock()
LockLabels == {"add_lock", "rm_lock", "dis_lock", "en_lock"}

\* C30: every call of AddClient, RemoveClient, EnableClient and
\* DisableClient releases the Vpn lock on every return path (success,
\* duplicate name, peer not found, address exhaustion, I/O error) and never
\* tries to take the lock while holding it; so with several concurrent
\* callers and fair scheduling every call eventually acquires the lock and
\* returns (no deadlock, no caller blocked forever by a failed operation).
LockAlwaysReleased ==
    /\ [](\A p \in Procs : pc[p] \in LockLabels \cup {"idle"} => lock # p)
    /\ [](\A p \in Procs : pc[p] \notin LockLabels \cup {"idle"} => lock = p)
    /\ \A p \in Procs : (pc[p] \in LockLabels) ~> (lock = p)
    /\ \A p \in Procs : (pc[p] # "idle") ~> (pc[p] = "idle")

\* a call has returned an I/O error and released the lock, and the other
\* process, second to call, holds the lock now
OtherLocksAfterFailedCall ==
    \E p, q \in Procs :
        /\ p # q
        /\ pc[p] = "idle"
        /\ ret[p].err = "write failed"
        /\ faults = 1
        /\ calls = 2
        /\ lock = q
        /\ pc[q] \notin LockLabels \cup {"idle"}

(***************************************************************************)
(* Keys.WriteOut.  The keys directory holds, for some names, key files     *)
(* written earlier with other keys; one goroutine writes out the keys of   *)
(* an identity.                                                            *)
(***************************************************************************)
\* keys drawn before those of NewKeys(name)
EarlierKeys(name) ==
    [Name |-> name, PrivateKey |-> NewKeys(name).PrivateKey + 100,
     PresharedKey |-> NewKeys(name).PresharedKey + 100]

InitKeys ==
    /\ CodecIdle
    /\ \E held \in SUBSET ClientNames :
        /\ tunnelFile = NoFile
        /\ registryFile = NoFile
        /\ confFiles = [n \in ClientNames |-> NoFile]
        /\ userFiles = [n \in ClientNames |-> NoFile]
        /\ keyFiles = [n \in ClientNames |->
                         [k \in KeyKinds |-> IF n \in held THEN KeyOfKind(EarlierKeys(n), k)
                                             ELSE NoKey]]
        /\ piholeFile = NoFile
    /\ NotLoaded
    /\ InitProcs

\* os.WriteFile, then os.Chown: the file after the call, and the error
writeOutAndChown(old, data, io) ==
    [file |-> IF io = "write fails" THEN old ELSE data,
     err |-> IF io = "ok" THEN "" ELSE io]

\* k.WriteOut() of the keys k = NewKeys(name)
WriteOut(p) ==
    /\ pc[p] = "idle"
    /\ Called
    /\ \E name \in ClientNames :
        frame' = [frame EXCEPT ![p] = [NoFrame EXCEPT !.op = "writeout", !.name = name,
                                                      !.keys = NewKeys(name)]]
    /\ ret' = [ret EXCEPT ![p] = NoRet]
    /\ Goto(p, "wo_priv")
    /\ UNCHANGED <<codecVars, before, diskVars, memVars, lock, faults>>

\* one writeOutAndChown of WriteOutDir and the test of its error: nil returns
\* nil at once; an error goes on to the next file, and after the last file
\* is returned
WriteOutDirStep(p, kind, to) ==
    /\ pc[p] = "wo_" \o kind
    /\ \E io \in {"ok", "write fails", "chown fails"} :
        LET r == writeOutAndChown(keyFiles[frame[p].name][kind],
                                  KeyOfKind(frame[p].keys, kind), io)
        IN
        /\ keyFiles' = [keyFiles EXCEPT ![frame[p].name][kind] = r.file]
        /\ IF r.err = "" THEN UNCHANGED faults ELSE faults' = faults + 1
        /\ IF r.err = "" \/ to = "idle"
              THEN Return(p, r.err)
              ELSE Goto(p, to) /\ UNCHANGED <<lock, ret, frame>>
    /\ UNCHANGED <<codecVars, before, tunnelFile, registryFile, confFiles, userFiles, piholeFile,
                   memVars, calls>>

WriteOutDir(p) ==
    \/ WriteOutDirStep(p, "priv", "wo_psk")
    \/ WriteOutDirStep(p, "psk", "wo_pub")
    \/ WriteOutDirStep(p, "pub", "idle")

NextKeys == \E p \in Main : WriteOut(p) \/ WriteOutDir(p)

SpecKeys == InitKeys /\ [][NextKeys]_vars

\* the three key files of name hold the keys of NewKeys(name)
AllWritten(name) ==
    \A k \in KeyKinds : keyFiles[name][k] = KeyOfKind(NewKeys(name), k)

\* C31: when no write or chown fails, WriteOut writes all three key files of
\* the identity, each holding the text of the corresponding key, and returns
\* nil; it returns an error when any of the three writes fails.  Stated of
\* the first call, where faults counts the failures of that call.
WriteOutWritesAllThree ==
    \A p \in Main :
        (pc[p] = "idle" /\ ret[p].op = "writeout" /\ calls = 1) =>
            /\ faults = 0 => (ret[p].err = "" /\ AllWritten(ret[p].name))
            /\ faults > 0 => ret[p].err # ""

\* WriteOut has returned nil with no failure, and of the three files only
\* the private key is there
OnlyPrivateKeyWritten ==
    \E p \in Main :
        /\ pc[p] = "idle"
        /\ ret[p].op = "writeout"
        /\ ret[p].err = ""
        /\ calls = 1
        /\ faults = 0
        /\ keyFiles[ret[p].name]["priv"] = NewKeys(ret[p].name).PrivateKey
        /\ keyFiles[ret[p].name]["psk"] = NoKey
        /\ keyFiles[ret[p].name]["pub"] = NoKey

(***************************************************************************)
(* The commands add and sync of the manager: one run of the program, from  *)
(* the dispatch in main to the return of the command's action.  ret holds  *)
(* the result of the last call the action made and, once the action has    *)
(* returned, the error it returned.                                        *)
(***************************************************************************)
Commands == {"cmd add", "cmd sync"}

InitCmd ==
    /\ CodecIdle
    /\ InitDisk(SubnetBits, RegModes, ConfModes)
    /\ NotLoaded
    /\ InitProcs

\* cmd.Run: the action of the command named on the command line is called
CmdRun(p, cmd) ==
    /\ pc[p] = "idle"
    /\ frame[p] = NoFrame
    /\ ret[p] = NoRet
    /\ frame' = [frame EXCEPT ![p] = [NoFrame EXCEPT !.op = cmd]]
    /\ UNCHANGED <<codecVars, before, diskVars, memVars, lock, pc, ret, faults, calls>>

\* vpn, err := pivpn.LoadVpn()
CmdLoadVpn(p) ==
    /\ frame[p].op \in Commands
    /\ ret[p] = NoRet
    /\ Load(p)

\* the action returns e
CmdReturn(p, cmd, e) ==
    /\ ret' = [ret EXCEPT ![p] = [NoRet EXCEPT !.op = cmd, !.name = ret[p].name, !.err = e]]
    /\ frame' = [frame EXCEPT ![p] = NoFrame]
    /\ UNCHANGED <<codecVars, before, diskVars, memVars, lock, pc, faults, calls>>

\* CmdAdd: LoadVpn has failed; return err
CmdAddLoadFailed(p) ==
    /\ frame[p].op = "cmd add"
    /\ ret[p].op = "load"
    /\ loaded = "err"
    /\ CmdReturn(p, "cmd add", ret[p].err)

\* CmdAdd: err = vpn.AddClient(name)
CmdAddClient(p) ==
    /\ \/ frame[p].op = "cmd add" /\ ret[p].op = "load"
       \/ pc[p] # "idle"
    /\ AddClient(p)

\* CmdAdd: after AddClient, `if err != nil { return nil }`, else the message
\* is printed and nil returned
CmdAddReturn(p) ==
    /\ pc[p] = "idle"
    /\ ret[p].op = "add"
    /\ CmdReturn(p, "cmd add", "")

\* CmdSync: LoadVpn has failed; return nil
CmdSyncLoadFailed(p) ==
    /\ frame[p].op = "cmd sync"
    /\ ret[p].op = "load"
    /\ loaded = "err"
    /\ CmdReturn(p, "cmd sync", "")

\* CmdSync: SyncClients, SyncTunnel, SyncPihole
CmdSyncAll(p) ==
    /\ \/ frame[p].op = "cmd sync" /\ ret[p].op = "load"
       \/ pc[p] # "idle"
    /\ Sync(p)

\* CmdSync: the error of the first Sync method that failed is returned, nil
\* after the third
CmdSyncReturn(p) ==
    /\ pc[p] = "idle"
    /\ ret[p].op = "sync"
    /\ CmdReturn(p, "cmd sync", ret[p].err)

CmdAdd(p) ==
    \/ CmdRun(p, "cmd add")
    \/ CmdLoadVpn(p)
    \/ CmdAddLoadFailed(p)
    \/ CmdAddClient(p)
    \/ CmdAddReturn(p)

CmdSync(p) ==
    \/ CmdRun(p, "cmd sync")
    \/ CmdSyncLoadFailed(p)
    \/ CmdSyncAll(p)
    \/ CmdSyncReturn(p)

NextCmd == \E p \in Main : CmdAdd(p) \/ CmdSync(p)

SpecCmd == InitCmd /\ [][NextCmd]_vars

\* C32: the add and sync commands surface failures: when AddClient returns
\* an error the add command returns a non-nil error, and when Load fails the
\* sync command returns a non-nil error and rewrites nothing; each returns
\* nil only when its operation was carried out.
CommandsSurfaceFailures ==
    [][\A p \in Main :
        /\ CmdAddLoadFailed(p) => ret'[p].err # ""
        /\ CmdAddReturn(p) => (ret[p].err # "" => ret'[p].err # "")
        /\ CmdSyncLoadFailed(p) => (ret'[p].err # "" /\ UNCHANGED diskVars)
        /\ CmdSyncReturn(p) => (ret[p].err # "" => ret'[p].err # "")]_vars

\* the add command has returned nil although a write of AddClient failed
AddCommandHidFailure ==
    \E p \in Main :
        /\ pc[p] = "idle"
        /\ ret[p].op = "cmd add"
        /\ ret[p].err = ""
        /\ faults = 1
        /\ loaded = "ok"
=============================================================================
